---- MODULE Spec2Model ----
(***************************************************************************)
(* TalentAI backend (SubhamBhat/AI-resume-sorter): the conversation cache  *)
(* (ChatStore, backend/main.py), the question-answering handler            *)
(* candidate_ask that reads and writes it, the ranking endpoint            *)
(* sort_resumes and the scorer it calls (backend/processors/scorer.py).    *)
(*                                                                         *)
(* Text is a TLA+ string (a sequence of characters): Len, SubSeq and \o    *)
(* are the operations the Python code's len, slicing and + are.            *)
(***************************************************************************)
EXTENDS Integers, Sequences, FiniteSets, TLC

(***************************************************************************)
(* Bounds of the model.  ChatStore.__init__(ttl_sec=86400, max_messages=60)*)
(* takes both numbers as parameters; the model instantiates the store with *)
(* small ones so that expiry and the window trim happen within the bounds. *)
(***************************************************************************)
max_messages == 2
ttl == 2
MaxNow == 3
MaxAdds == 3

Cids == {"c1", "c2"}
Roles == {"user", "assistant"}
Texts == {"a", "b"}

Threads == {1, 2}
\* operations each thread issues
MaxOps == 1

VARIABLES
    data,    \* ChatStore.data: conversation id -> {"messages", "updated"}
    now,     \* time.time()
    nadds,   \* ghost: number of add calls so far (the identity of a message)
    log,     \* ghost: per id, every entry added since the record was created
    stale,   \* ghost: messages that were stored in a record while it was expired
    ret,     \* the last operation and what it returned
    \* ChatStore with its methods run by several threads, statement by statement:
    tdata,   \* ChatStore.data: conversation id -> reference to a record (a dict)
    heapE,   \* the record objects: reference -> [messages: list reference, updated]
    heapL,   \* the list objects: reference -> sequence of messages
    th,      \* per thread: position, arguments and locals of the running method
    tadded,  \* ghost: per id, the messages whose add has returned
    tpopped, \* ghost: the ids whose record a get has popped
    \* candidate_ask:
    ask,     \* the last request: its form fields, the handler's locals, the response
    \* sort_resumes and ResumeScorer:
    sorted,  \* the last ranking request: its inputs, the scorer's results, the response
    chunked, \* the last call of _create_chunks: its arguments and what it returned
    scoring  \* the last iteration of the loop of score_resumes: inputs, locals, row

storeVars == <<data, now, nadds, log, stale, ret>>
thVars == <<tdata, heapE, heapL, th, tadded, tpopped>>
rankVars == <<sorted, chunked, scoring>>
vars ==
    <<data, now, nadds, log, stale, ret, tdata, heapE, heapL, th, tadded, tpopped, ask,
      sorted, chunked, scoring>>

\* The history form field: absent, not a JSON list of {role, text} items, or such a list
NoHistory == [kind |-> "absent", items |-> <<>>]

\* No request has been handled yet
NoAsk ==
    [phase |-> "fresh", question |-> "", resume |-> "", cid |-> "",
     history |-> NoHistory, fail |-> "none", server_hist |-> <<>>,
     q |-> "", ctx |-> "", kw |-> {}, intent |-> "",
     result |-> [answer |-> "", snippets |-> <<>>, scores |-> <<>>],
     status |-> 0]

\* No ranking request has been handled yet
NoSort ==
    [phase |-> "fresh", job_description |-> "", resumes |-> <<>>, processed |-> <<>>,
     broken |-> {}, raised |-> FALSE, before |-> <<>>, scored |-> <<>>,
     candidates |-> <<>>, status |-> 0]

\* _create_chunks has not been called yet
NoChunks == [phase |-> "fresh", text |-> "", chunk_size |-> 0, chunks |-> <<>>]

\* No document scored so far
NoScoring ==
    [phase |-> "fresh", job_description |-> "", resume_data |-> <<>>, chunks |-> <<>>,
     chunk_scores |-> <<>>, top_idx |-> <<>>, resume_keywords |-> <<>>, row |-> <<>>]

(***************************************************************************)
(* Sequence helpers (Python slicing).                                      *)
(***************************************************************************)
Min(a, b) == IF a <= b THEN a ELSE b

\* s[-n:] for n > 0
LastN(s, n) == IF Len(s) <= n THEN s ELSE SubSeq(s, Len(s) - n + 1, Len(s))

(***************************************************************************)
(* ChatStore (main.py 41-61), as the code runs it in one thread.           *)
(***************************************************************************)
\* The record add starts from: self.data.get(cid) or {"messages": [], "updated": 0.0}
EntryOrNew(d, cid) ==
    IF cid \in DOMAIN d THEN d[cid] ELSE [messages |-> <<>>, updated |-> 0]

\* (mutant) the trim keeps the head of the list: entry["messages"][:max_messages]
TrimKeepsOldest(msgs) ==
    IF Len(msgs) > max_messages THEN SubSeq(msgs, 1, max_messages) ELSE msgs

\* entry["messages"] after the append and the trim of lines 49-51
Trim(msgs) ==
    IF Len(msgs) > max_messages THEN LastN(msgs, max_messages) ELSE msgs

\* ChatStore.add: the store after add(cid, role, text) at time t; id is the
\* ghost identity of the appended message.
add(d, cid, role, text, t, id) ==
    LET entry == EntryOrNew(d, cid)
        appended == Append(entry.messages,
                           [role |-> role, text |-> text, ts |-> t, id |-> id])
    IN  (cid :> [messages |-> Trim(appended), updated |-> t]) @@ d

\* (mutant) the subtraction of line 58 the other way round
ExpiredOperandsSwapped(entry, t) == entry.updated - t > ttl

\* The test of line 58: the record is past its time to live.
Expired(entry, t) == t - entry.updated > ttl

\* (mutant) the expiry empties the whole store: self.data.clear()
PopEveryKey(d, cid) == [c \in {} |-> d[c]]

\* self.data.pop(cid, None) of line 59
Pop(d, cid) == [c \in DOMAIN d \ {cid} |-> d[c]]

\* ChatStore.get, the store it leaves: an expired record is popped.
getStore(d, cid, t) ==
    IF cid \in DOMAIN d /\ Expired(d[cid], t) THEN Pop(d, cid) ELSE d

\* ChatStore.get, the messages it reads (with the ghost id kept).
getMessages(d, cid, t) ==
    IF cid \notin DOMAIN d THEN <<>>
    ELSE IF Expired(d[cid], t) THEN <<>>
    ELSE d[cid].messages

\* What get returns: role and text of each message, in order.
RoleText(msgs) == [i \in 1..Len(msgs) |-> [role |-> msgs[i].role, text |-> msgs[i].text]]

get(d, cid, t) == RoleText(getMessages(d, cid, t))

\* The return statement get leaves by: line 57 (no record), 60 (expired), 61.
getLine(d, cid, t) ==
    IF cid \notin DOMAIN d THEN 57
    ELSE IF Expired(d[cid], t) THEN 60
    ELSE 61

Ids(msgs) == {msgs[i].id : i \in 1..Len(msgs)}

\* ghost: the messages held by records that are expired at time t
StaleAt(d, t) == UNION {Ids(d[c].messages) : c \in {x \in DOMAIN d : Expired(d[x], t)}}

(***************************************************************************)
(* The store driven through its two methods, with time passing in between. *)
(***************************************************************************)
\* A thread between two calls: no method running, MaxOps calls left to issue.
ThreadStart ==
    [pc |-> "idle", left |-> MaxOps, op |-> "", cid |-> "", role |-> "", text |-> "",
     now |-> 0, entry |-> 0, lst |-> 0, id |-> 0, val |-> <<>>]

ThIdle ==
    /\ tdata = <<>>
    /\ heapE = <<>>
    /\ heapL = <<>>
    /\ th = [t \in Threads |-> ThreadStart]
    /\ tadded = [c \in Cids |-> {}]
    /\ tpopped = {}

StoreInit ==
    /\ ThIdle
    /\ data = <<>>
    /\ now = 0
    /\ nadds = 0
    /\ log = [c \in Cids |-> <<>>]
    /\ stale = {}
    /\ ret = [op |-> "init", cid |-> "", val |-> <<>>, ids |-> {}, line |-> 0]
    /\ ask = NoAsk
    /\ sorted = NoSort
    /\ chunked = NoChunks
    /\ scoring = NoScoring

Add(cid, role, text) ==
    /\ nadds < MaxAdds
    /\ data' = add(data, cid, role, text, now, nadds + 1)
    /\ nadds' = nadds + 1
    /\ log' = [log EXCEPT ![cid] = Append(@, [role |-> role, text |-> text])]
    /\ ret' = [op |-> "add", cid |-> cid, val |-> <<>>, ids |-> {}, line |-> 53]
    /\ UNCHANGED <<now, stale>>
    /\ UNCHANGED <<thVars, ask, rankVars>>

Get(cid) ==
    /\ data' = getStore(data, cid, now)
    /\ ret' = [op |-> "get", cid |-> cid, val |-> get(data, cid, now),
               ids |-> Ids(getMessages(data, cid, now)),
               line |-> getLine(data, cid, now)]
    /\ log' = IF cid \in DOMAIN data /\ cid \notin DOMAIN data'
              THEN [log EXCEPT ![cid] = <<>>] ELSE log
    /\ UNCHANGED <<now, nadds, stale>>
    /\ UNCHANGED <<thVars, ask, rankVars>>

Tick ==
    /\ now < MaxNow
    /\ now' = now + 1
    /\ stale' = stale \cup StaleAt(data, now + 1)
    /\ ret' = [op |-> "tick", cid |-> "", val |-> <<>>, ids |-> {}, line |-> 0]
    /\ UNCHANGED <<data, nadds, log>>
    /\ UNCHANGED <<thVars, ask, rankVars>>

StoreNext ==
    \/ \E cid \in Cids, role \in Roles, text \in Texts : Add(cid, role, text)
    \/ \E cid \in Cids : Get(cid)
    \/ Tick

SpecStore == StoreInit /\ [][StoreNext]_vars

(***************************************************************************)
(* ChatStore run by several threads.  The class takes no lock, so a thread *)
(* can be descheduled between any two statements of add and get; a step is *)
(* one statement (an append, a dict read, a dict write).  Records and      *)
(* lists are objects: two threads that read the same record share it.      *)
(***************************************************************************)
\* the thread's locals after the call returned
Returned(r, val) == [r EXCEPT !.pc = "idle", !.val = val]

\* a thread calls add(cid, role, text), which reads the clock (line 47: now =
\* time.time()), or get(cid)
TCall(t, op, cid, role, text) ==
    /\ th[t].pc = "idle"
    /\ th[t].left > 0
    /\ th' = [th EXCEPT ![t] = [ThreadStart EXCEPT
                 !.pc = IF op = "add" THEN "a48" ELSE "g55", !.now = now,
                 !.left = th[t].left - 1, !.op = op, !.cid = cid,
                 !.role = IF op = "add" THEN role ELSE "",
                 !.text = IF op = "add" THEN text ELSE "",
                 !.id = IF op = "add" THEN nadds + 1 ELSE 0]]
    /\ nadds' = IF op = "add" THEN nadds + 1 ELSE nadds
    /\ UNCHANGED <<tdata, heapE, heapL, tadded, tpopped, now>>
    /\ UNCHANGED <<data, log, stale, ret, ask, rankVars>>

\* line 48: entry = self.data.get(cid) or {"messages": [], "updated": 0.0}
TAdd48(t) ==
    /\ th[t].pc = "a48"
    /\ IF th[t].cid \in DOMAIN tdata
       THEN /\ th' = [th EXCEPT ![t].pc = "a49", ![t].entry = tdata[th[t].cid]]
            /\ UNCHANGED <<heapE, heapL>>
       ELSE /\ heapL' = Append(heapL, <<>>)
            /\ heapE' = Append(heapE, [messages |-> Len(heapL) + 1, updated |-> 0])
            /\ th' = [th EXCEPT ![t].pc = "a49", ![t].entry = Len(heapE) + 1]
    /\ UNCHANGED <<tdata, tadded, tpopped, now, nadds>>
    /\ UNCHANGED <<data, log, stale, ret, ask, rankVars>>

\* line 49, first half: entry["messages"] is evaluated
TAdd49Load(t) ==
    /\ th[t].pc = "a49"
    /\ th' = [th EXCEPT ![t].pc = "a49b", ![t].lst = heapE[th[t].entry].messages]
    /\ UNCHANGED <<tdata, heapE, heapL, tadded, tpopped, now, nadds>>
    /\ UNCHANGED <<data, log, stale, ret, ask, rankVars>>

\* line 49, second half: .append({"role": role, "text": text, "ts": now})
TAdd49Append(t) ==
    /\ th[t].pc = "a49b"
    /\ heapL' = [heapL EXCEPT ![th[t].lst] =
                    Append(@, [role |-> th[t].role, text |-> th[t].text,
                               ts |-> th[t].now, id |-> th[t].id])]
    /\ th' = [th EXCEPT ![t].pc = "a50"]
    /\ UNCHANGED <<tdata, heapE, tadded, tpopped, now, nadds>>
    /\ UNCHANGED <<data, log, stale, ret, ask, rankVars>>

\* line 50: if len(entry["messages"]) > self.max_messages
TAdd50(t) ==
    /\ th[t].pc = "a50"
    /\ th' = [th EXCEPT ![t].pc =
                 IF Len(heapL[heapE[th[t].entry].messages]) > max_messages
                 THEN "a51" ELSE "a52"]
    /\ UNCHANGED <<tdata, heapE, heapL, tadded, tpopped, now, nadds>>
    /\ UNCHANGED <<data, log, stale, ret, ask, rankVars>>

\* line 51, right-hand side: entry["messages"][-self.max_messages:] is a new list
TAdd51Slice(t) ==
    /\ th[t].pc = "a51"
    /\ heapL' = Append(heapL, LastN(heapL[heapE[th[t].entry].messages], max_messages))
    /\ th' = [th EXCEPT ![t].pc = "a51b", ![t].lst = Len(heapL) + 1]
    /\ UNCHANGED <<tdata, heapE, tadded, tpopped, now, nadds>>
    /\ UNCHANGED <<data, log, stale, ret, ask, rankVars>>

\* line 51, the assignment: entry["messages"] = <the new list>
TAdd51Store(t) ==
    /\ th[t].pc = "a51b"
    /\ heapE' = [heapE EXCEPT ![th[t].entry].messages = th[t].lst]
    /\ th' = [th EXCEPT ![t].pc = "a52"]
    /\ UNCHANGED <<tdata, heapL, tadded, tpopped, now, nadds>>
    /\ UNCHANGED <<data, log, stale, ret, ask, rankVars>>

\* line 52: entry["updated"] = now
TAdd52(t) ==
    /\ th[t].pc = "a52"
    /\ heapE' = [heapE EXCEPT ![th[t].entry].updated = th[t].now]
    /\ th' = [th EXCEPT ![t].pc = "a53"]
    /\ UNCHANGED <<tdata, heapL, tadded, tpopped, now, nadds>>
    /\ UNCHANGED <<data, log, stale, ret, ask, rankVars>>

\* line 53: self.data[cid] = entry, and add returns
TAdd53(t) ==
    /\ th[t].pc = "a53"
    /\ tdata' = (th[t].cid :> th[t].entry) @@ tdata
    /\ tadded' = [tadded EXCEPT ![th[t].cid] = @ \cup {th[t].id}]
    /\ th' = [th EXCEPT ![t] = Returned(@, <<>>)]
    /\ UNCHANGED <<heapE, heapL, tpopped, now, nadds>>
    /\ UNCHANGED <<data, log, stale, ret, ask, rankVars>>

\* lines 55-57: entry = self.data.get(cid); if not entry: return []
TGet55(t) ==
    /\ th[t].pc = "g55"
    /\ th' = IF th[t].cid \in DOMAIN tdata
             THEN [th EXCEPT ![t].pc = "g58", ![t].entry = tdata[th[t].cid]]
             ELSE [th EXCEPT ![t] = Returned(@, <<>>)]
    /\ UNCHANGED <<tdata, heapE, heapL, tadded, tpopped, now, nadds>>
    /\ UNCHANGED <<data, log, stale, ret, ask, rankVars>>

\* line 58: if time.time() - float(entry.get("updated", 0.0)) > self.ttl
TGet58(t) ==
    /\ th[t].pc = "g58"
    /\ th' = [th EXCEPT ![t].pc =
                 IF Expired(heapE[th[t].entry], now) THEN "g59" ELSE "g61"]
    /\ UNCHANGED <<tdata, heapE, heapL, tadded, tpopped, now, nadds>>
    /\ UNCHANGED <<data, log, stale, ret, ask, rankVars>>

\* lines 59-60: self.data.pop(cid, None); return []
TGet59(t) ==
    /\ th[t].pc = "g59"
    /\ tdata' = Pop(tdata, th[t].cid)
    /\ tpopped' = tpopped \cup {th[t].cid}
    /\ th' = [th EXCEPT ![t] = Returned(@, <<>>)]
    /\ UNCHANGED <<heapE, heapL, tadded, now, nadds>>
    /\ UNCHANGED <<data, log, stale, ret, ask, rankVars>>

\* line 61: return [{"role": ..., "text": ...} for m in entry.get("messages", [])]
TGet61(t) ==
    /\ th[t].pc = "g61"
    /\ th' = [th EXCEPT ![t] = Returned(@, RoleText(heapL[heapE[th[t].entry].messages]))]
    /\ UNCHANGED <<tdata, heapE, heapL, tadded, tpopped, now, nadds>>
    /\ UNCHANGED <<data, log, stale, ret, ask, rankVars>>

\* time passes: a pause longer than the time to live
TTick ==
    /\ now + ttl + 1 <= MaxNow
    /\ now' = now + ttl + 1
    /\ UNCHANGED <<tdata, heapE, heapL, th, tadded, tpopped, nadds>>
    /\ UNCHANGED <<data, log, stale, ret, ask, rankVars>>

\* n earlier adds on id c at time 0, as one thread leaves the store
Seeded(c, n) ==
    /\ tdata = IF n = 0 THEN <<>> ELSE (c :> 1)
    /\ heapE = IF n = 0 THEN <<>> ELSE <<[messages |-> 1, updated |-> 0]>>
    /\ heapL = IF n = 0 THEN <<>>
               ELSE <<[i \in 1..n |-> [role |-> "user", text |-> "a", ts |-> 0, id |-> i]]>>
    /\ tadded = [x \in Cids |-> IF x = c THEN 1..n ELSE {}]
    /\ nadds = n

ThreadsInit ==
    /\ \E n \in 0..max_messages : Seeded("c1", n)
    /\ th = [t \in Threads |-> ThreadStart]
    /\ tpopped = {}
    /\ data = <<>>
    /\ now = 0
    /\ log = [c \in Cids |-> <<>>]
    /\ stale = {}
    /\ ret = [op |-> "init", cid |-> "", val |-> <<>>, ids |-> {}, line |-> 0]
    /\ ask = NoAsk
    /\ sorted = NoSort
    /\ chunked = NoChunks
    /\ scoring = NoScoring

ThreadsNext ==
    \/ \E t \in Threads, cid \in Cids : TCall(t, "add", cid, "user", "a")
    \/ \E t \in Threads, cid \in Cids : TCall(t, "get", cid, "", "")
    \/ \E t \in Threads : TAdd48(t)
    \/ \E t \in Threads : TAdd49Load(t)
    \/ \E t \in Threads : TAdd49Append(t)
    \/ \E t \in Threads : TAdd50(t)
    \/ \E t \in Threads : TAdd51Slice(t)
    \/ \E t \in Threads : TAdd51Store(t)
    \/ \E t \in Threads : TAdd52(t)
    \/ \E t \in Threads : TAdd53(t)
    \/ \E t \in Threads : TGet55(t)
    \/ \E t \in Threads : TGet58(t)
    \/ \E t \in Threads : TGet59(t)
    \/ \E t \in Threads : TGet61(t)
    \/ TTick

SpecThreads == ThreadsInit /\ [][ThreadsNext]_vars

\* the record the store holds for an id, as a value (absent: the empty tuple)
TRecord(c) ==
    IF c \in DOMAIN tdata
    THEN <<heapL[heapE[tdata[c]].messages], heapE[tdata[c]].updated>>
    ELSE <<>>

(***************************************************************************)
(* Text.  A Python str is a TLA+ string; the operators below are the str   *)
(* methods and the regular expressions candidate_ask and _create_chunks    *)
(* use, each computed on the characters.  The em dash of the leadership    *)
(* answers (not an ASCII character) is written "~".                        *)
(***************************************************************************)
Ch(s, i) == SubSeq(s, i, i)

CharsOf(s) == {Ch(s, i) : i \in 1..Len(s)}

UpperChars == "ABCDEFGHIJKLMNOPQRSTUVWXYZ"
LowerChars == "abcdefghijklmnopqrstuvwxyz"
UpperSet == CharsOf(UpperChars)
AlphaSet == CharsOf(UpperChars) \cup CharsOf(LowerChars)
DigitSet == CharsOf("0123456789")
\* \w of the re module, on ASCII text
WordSet == AlphaSet \cup DigitSet \cup {"_"}
\* \s of the re module, and what str.strip removes
SpaceSet == {" ", "\t", "\n", "\r", "\f"}

LowerChar == [c \in UpperSet |-> Ch(LowerChars, CHOOSE k \in 1..26 : Ch(UpperChars, k) = c)]

\* str.lower
RECURSIVE lower(_)
lower(s) ==
    IF Len(s) = 0 THEN ""
    ELSE IF Len(s) = 1 THEN (IF s \in UpperSet THEN LowerChar[s] ELSE s)
    ELSE lower(SubSeq(s, 1, Len(s) \div 2)) \o lower(SubSeq(s, (Len(s) \div 2) + 1, Len(s)))

\* sub in s
Contains(s, sub) ==
    \E i \in 1..(Len(s) - Len(sub) + 1) : SubSeq(s, i, i + Len(sub) - 1) = sub

\* any(k in s for k in words)
AnyIn(s, words) == \E k \in words : Contains(s, k)

\* s[i:].startswith(sub), i counted from 1
StartsAt(s, i, sub) == i + Len(sub) - 1 <= Len(s) /\ SubSeq(s, i, i + Len(sub) - 1) = sub

MinOf(S) == CHOOSE x \in S : \A y \in S : x <= y
MaxOf(S) == CHOOSE x \in S : \A y \in S : y <= x

\* the index before the least of S, and the index after the greatest; n when S is empty
BeforeFirst(S, n) == IF S = {} THEN n ELSE MinOf(S) - 1
AfterLast(S, n) == IF S = {} THEN n ELSE MaxOf(S) + 1

\* s from the first to the last index of keep
Span(s, keep) == IF keep = {} THEN "" ELSE SubSeq(s, MinOf(keep), MaxOf(keep))

\* str.strip
strip(s) == Span(s, {i \in 1..Len(s) : Ch(s, i) \notin SpaceSet})

\* s[:n]
Prefix(s, n) == IF Len(s) <= n THEN s ELSE SubSeq(s, 1, n)

\* The last index of the run of characters of class C that starts at i
\* (i - 1 when the character at i is not of the class).
RunEnd(s, i, C) == BeforeFirst({k \in i..Len(s) : Ch(s, k) \notin C}, Len(s))

\* as RunEnd, for the characters not of class C (\S+ is RunEndNot of SpaceSet)
RunEndNot(s, i, C) == BeforeFirst({k \in i..Len(s) : Ch(s, k) \in C}, Len(s))

\* The first index of the run of characters of class C that ends at i
RunStart(s, i, C) == AfterLast({k \in 1..i : Ch(s, k) \notin C}, 1)

\* \b of the re module between the characters at i - 1 and i
Boundary(s, i) ==
    LET before == i > 1 /\ i - 1 <= Len(s) /\ Ch(s, i - 1) \in WordSet
        after == i >= 1 /\ i <= Len(s) /\ Ch(s, i) \in WordSet
    IN  before # after

(***************************************************************************)
(* Matches of a pattern.  A pattern is given by the function ends: start   *)
(* index -> last index of the match that starts there.  re.sub, re.split   *)
(* and re.findall take the leftmost match, then go on after its end.       *)
(***************************************************************************)
RECURSIVE Cuts(_, _)
RECURSIVE CutsAmong(_, _)
RECURSIVE CutTo(_, _, _)
\* the match that starts at p and ends at e, then the matches after it
CutTo(ends, p, e) == <<<<p, e>>>> \o Cuts(ends, e + 1)

\* the matches, from the leftmost of the starts in from
CutsAmong(ends, from) == IF from = {} THEN <<>> ELSE CutTo(ends, MinOf(from), ends[MinOf(from)])

\* the matches found from index pos on, as <<start, end>>
Cuts(ends, pos) == CutsAmong(ends, {p \in DOMAIN ends : p >= pos})

\* the text between the matches: re.split(pattern, s), str.split(sep)
Pieces(s, cuts) ==
    [k \in 1..(Len(cuts) + 1) |->
        SubSeq(s, IF k = 1 THEN 1 ELSE cuts[k - 1][2] + 1,
                  IF k = Len(cuts) + 1 THEN Len(s) ELSE cuts[k][1] - 1)]

\* sep.join(parts)
RECURSIVE join(_, _)
join(sep, parts) ==
    IF Len(parts) = 0 THEN ""
    ELSE IF Len(parts) = 1 THEN parts[1]
    ELSE join(sep, SubSeq(parts, 1, Len(parts) \div 2)) \o sep
         \o join(sep, SubSeq(parts, (Len(parts) \div 2) + 1, Len(parts)))

\* re.sub(pattern, repl, s)
Sub(s, ends, repl) == join(repl, Pieces(s, Cuts(ends, 1)))

\* [x for x in seq if keep(x)], for keep given as the set of kept indices
RECURSIVE SelectIdx(_, _, _)
SelectIdx(seq, keep, i) ==
    IF i > Len(seq) THEN <<>>
    ELSE (IF i \in keep THEN <<seq[i]>> ELSE <<>>) \o SelectIdx(seq, keep, i + 1)

\* [x for x in seq if P(x)] where keep is the set of indices of the kept elements
Filter(seq, keep) == SelectIdx(seq, keep, 1)

\* [x for x in seq if x]
NonEmpty(seq) == Filter(seq, {i \in 1..Len(seq) : seq[i] # ""})

\* [x.strip() for x in parts if x.strip()]
StripNonEmpty(parts) == NonEmpty([i \in 1..Len(parts) |-> strip(parts[i])])

(***************************************************************************)
(* ResumeScorer._create_chunks (scorer.py 153-187)                         *)
(***************************************************************************)
\* str.split('.')
SplitDots(text) == Pieces(text, Cuts([p \in {i \in 1..Len(text) : Ch(text, i) = "."} |-> p], 1))

\* The chunk closed with its first sentence only
CloseChunkFirstOnly(current_chunk) == current_chunk[1] \o "."

\* '. '.join(current_chunk) + '.'
CloseChunk(current_chunk) == join(". ", current_chunk) \o "."

\* the loop of lines 169-185, from sentence i on
RECURSIVE ChunkLoop(_, _, _, _, _, _)
RECURSIVE ChunkStep(_, _, _, _, _, _, _)
\* lines 170-181: one iteration, on the stripped sentence
ChunkStep(sentences, i, chunks, current_chunk, current_length, chunk_size, sentence) ==
    IF sentence = ""
    THEN ChunkLoop(sentences, i + 1, chunks, current_chunk, current_length, chunk_size)
    ELSE IF current_length + Len(sentence) > chunk_size /\ current_chunk # <<>>
    THEN ChunkLoop(sentences, i + 1, Append(chunks, CloseChunk(current_chunk)),
                   <<sentence>>, Len(sentence), chunk_size)
    ELSE ChunkLoop(sentences, i + 1, chunks, Append(current_chunk, sentence),
                   current_length + Len(sentence), chunk_size)

ChunkLoop(sentences, i, chunks, current_chunk, current_length, chunk_size) ==
    IF i > Len(sentences)
    THEN IF current_chunk # <<>> THEN Append(chunks, CloseChunk(current_chunk)) ELSE chunks
    ELSE ChunkStep(sentences, i, chunks, current_chunk, current_length, chunk_size,
                   strip(sentences[i]))

\* line 187: chunks if chunks else [text]
OrWhole(chunks, text) == IF chunks # <<>> THEN chunks ELSE <<text>>

_create_chunks(text, chunk_size) ==
    OrWhole(ChunkLoop(SplitDots(text), 1, <<>>, <<>>, 0, chunk_size), text)

(***************************************************************************)
(* candidate_ask, the cleanup of the resume text (main.py 259-265)         *)
(***************************************************************************)
\* \(cid:\d+\)  on s, whose lowered text is ls
CidParenEndsIn(s, ls) ==
    LET E(p) == RunEnd(s, p + 5, DigitSet)
    IN  [p \in {p \in 1..Len(s) : /\ StartsAt(ls, p, "(cid:")
                                  /\ E(p) >= p + 5
                                  /\ StartsAt(s, E(p) + 1, ")")} |-> E(p) + 1]

\* \(cid:\d+\)  (IGNORECASE)
CidParenEnds(s) == CidParenEndsIn(s, lower(s))

\* \bcid:\d+\b  on s, whose lowered text is ls
CidEndsIn(s, ls) ==
    LET E(p) == RunEnd(s, p + 4, DigitSet)
    IN  [p \in {p \in 1..Len(s) : /\ StartsAt(ls, p, "cid:")
                                  /\ Boundary(s, p)
                                  /\ E(p) >= p + 4
                                  /\ Boundary(s, E(p) + 1)} |-> E(p)]

\* \bcid:\d+\b  (IGNORECASE)
CidEnds(s) == CidEndsIn(s, lower(s))

\* https?://\S+|www\.\S+  on s; ls is s, lowered when the call is IGNORECASE
UrlEndsIn(s, ls) ==
    LET Body(p) == IF StartsAt(ls, p, "https://") THEN p + 8
                   ELSE IF StartsAt(ls, p, "http://") THEN p + 7
                   ELSE IF StartsAt(ls, p, "www.") THEN p + 4
                   ELSE 0
    IN  [p \in {p \in 1..Len(s) : Body(p) > 0 /\ RunEndNot(s, Body(p), SpaceSet) >= Body(p)}
            |-> RunEndNot(s, Body(p), SpaceSet)]

\* https?://\S+|www\.\S+  (ignoreCase as the call passes flags=re.IGNORECASE)
UrlEnds(s, ignoreCase) == UrlEndsIn(s, IF ignoreCase THEN lower(s) ELSE s)

\* \b[\w\.-]+@[\w\.-]+\.\w+\b
EmailClass == WordSet \cup {".", "-"}

\* the end of the match whose @ is at index a (0: the domain part does not match):
\* [\w\.-]+ gives back characters up to the last dot that a word follows
EmailEndAt(s, a) ==
    LET last == RunEnd(s, a + 1, EmailClass)
        dots == {d \in (a + 2)..(last - 1) : Ch(s, d) = "." /\ Ch(s, d + 1) \in WordSet}
    IN  IF dots = {} THEN 0 ELSE RunEnd(s, MaxOf(dots) + 1, WordSet)

\* the matches whose @ is at one of the indices ats
EmailEndsAt(s, ats) ==
    LET StartsOf(a) == {p \in RunStart(s, a - 1, EmailClass)..(a - 1) : Boundary(s, p)}
        AtOf(p) == CHOOSE a \in ats : p \in StartsOf(a)
    IN  [p \in UNION {StartsOf(a) : a \in ats} |-> EmailEndAt(s, AtOf(p))]

EmailEnds(s) ==
    EmailEndsAt(s, {a \in 2..Len(s) : Ch(s, a) = "@" /\ Ch(s, a - 1) \in EmailClass
                                      /\ EmailEndAt(s, a) > 0})

\* \+?\d[\d\-\s]{7,}\d
PhoneClass == DigitSet \cup {"-"} \cup SpaceSet

PhoneEndFrom(s, d0) ==
    LET last == RunEnd(s, d0 + 1, PhoneClass)
        closers == {e \in (d0 + 8)..last : Ch(s, e) \in DigitSet}
    IN  IF d0 > Len(s) \/ Ch(s, d0) \notin DigitSet \/ closers = {} THEN 0 ELSE MaxOf(closers)

PhoneEnds(s) ==
    LET First(p) == IF Ch(s, p) = "+" THEN p + 1 ELSE p
    IN  [p \in {p \in 1..Len(s) : Ch(s, p) \in DigitSet \cup {"+"}
                                  /\ PhoneEndFrom(s, First(p)) > 0}
            |-> PhoneEndFrom(s, First(p))]

\* \s{2,}
SpacesEnds(s) ==
    [p \in {p \in 1..(Len(s) - 1) : Ch(s, p) \in SpaceSet /\ Ch(s, p + 1) \in SpaceSet}
        |-> RunEnd(s, p, SpaceSet)]

\* line 260
SubCidParens(s) == Sub(s, CidParenEnds(s), "")
\* line 261
SubCids(s) == Sub(s, CidEnds(s), "")
\* lines 262 and 317; line 262 passes flags=re.IGNORECASE, line 317 does not
SubUrls(s, ignoreCase) == Sub(s, UrlEnds(s, ignoreCase), "")
\* lines 263 and 318
SubEmails(s) == Sub(s, EmailEnds(s), "")
\* line 264
SubPhones(s) == Sub(s, PhoneEnds(s), "")
\* line 265
SubSpaces(s) == Sub(s, SpacesEnds(s), " ")

\* lines 259-265: txt
Cleanup(resume_text) ==
    SubSpaces(SubPhones(SubEmails(SubUrls(SubCids(SubCidParens(resume_text)), TRUE))))

(***************************************************************************)
(* candidate_ask, the noise filter, the lines and the sections             *)
(* (main.py 267-322)                                                       *)
(***************************************************************************)
Count(s, C) == Cardinality({i \in 1..Len(s) : Ch(s, i) \in C})

NoiseMarkers == {"email", "phone", "linkedin", "github", "http", "https", "@", "+91", "+1 ", "www."}
NoiseDomains == {".com", ".net", ".org", ".in/", ".io"}
MinLineLen == 25

\* lines 281-284: digits / max(1, letters) > 0.7, in integers
DigitHeavy(letters, digits) == letters > 0 /\ digits * 10 > 7 * letters

\* is_noise (lines 267-285)
is_noise(s) ==
    \/ AnyIn(lower(s), NoiseMarkers \cup NoiseDomains)
    \/ Len(s) < MinLineLen
    \/ Count(s, {"|", ":", "/", "@"}) >= 3
    \/ DigitHeavy(Count(s, AlphaSet), Count(s, DigitSet))

\* [\n\r]+
NewlinesEnds(s) ==
    [p \in {p \in 1..Len(s) : Ch(s, p) \in {"\n", "\r"}} |-> RunEnd(s, p, {"\n", "\r"})]

\* line 287: raw_lines
RawLines(txt) == StripNonEmpty(Pieces(txt, Cuts(NewlinesEnds(txt), 1)))

\* line 291: re.sub(r"^\s*[-*\d]+[.)]?\s*", "", ln).strip()
StripBullet(ln) ==
    LET a == RunEnd(ln, 1, SpaceSet)
        b == RunEnd(ln, a + 1, DigitSet \cup {"-", "*"})
        c == IF b + 1 <= Len(ln) /\ Ch(ln, b + 1) \in {".", ")"} THEN b + 1 ELSE b
        d == RunEnd(ln, c + 1, SpaceSet)
    IN  IF b >= a + 1 THEN strip(SubSeq(ln, d + 1, Len(ln))) ELSE strip(ln)

\* [x for x in seq if x and not is_noise(x)]
NotNoise(seq) == Filter(seq, {i \in 1..Len(seq) : seq[i] # "" /\ ~is_noise(seq[i])})

\* lines 289-296: the lines kept of raw_lines
KeptLines(raw_lines) == NotNoise([i \in 1..Len(raw_lines) |-> StripBullet(raw_lines[i])])

\* lines 287-296: lines
Lines(txt) == KeptLines(RawLines(txt))

HeadingNames == {"project", "projects", "experience", "work experience", "education",
                 "skills", "achievements", "certifications"}

\* line 300: re.fullmatch(r"(?i)(projects?|...|certifications)\b[:\-]?", line), on the
\* lowered line
IsHeadingLow(l) == \E h \in HeadingNames : l = h \/ l = h \o ":" \/ l = h \o "-"

IsHeading(line) == IsHeadingLow(lower(line))

\* lines 298-301: headings, as (index into lines counted from 0, lowered line)
Headings(lines) ==
    Filter([i \in 1..Len(lines) |-> <<i - 1, lower(lines[i])>>],
           {i \in 1..Len(lines) : IsHeading(lines[i])})

\* lines 317-319 of section_slice: the URLs and e-mail addresses of a line removed
SliceClean(s) == strip(SubEmails(SubUrls(s, FALSE)))

\* lines[a:b] for indices counted from 0
Slice(seq, a, b) == SubSeq(seq, a + 1, IF b < Len(seq) THEN b ELSE Len(seq))

\* lines 316-322: the cleaned lines of the segment
SliceCleaned(seg, max_len) ==
    Prefix(NotNoise([i \in 1..Len(seg) |-> SliceClean(seg[i])]), max_len)

\* lines 308-315: the segment that follows the heading at index start - 1
SliceFrom(lines, headings, start, max_len) ==
    LET later == {k \in 1..Len(headings) : headings[k][1] > start}
    IN  IF later # {}
        THEN Slice(lines, start, headings[MinOf(later)][1])
        ELSE Slice(lines, start, start + max_len)

\* lines 303-307: the headings that hold the name
SliceAmong(lines, headings, targets, max_len) ==
    IF targets = {} THEN <<>>
    ELSE SliceCleaned(SliceFrom(lines, headings, headings[MinOf(targets)][1] + 1, max_len),
                      max_len)

\* section_slice (lines 302-322)
section_slice(lines, headings, name, max_len) ==
    SliceAmong(lines, headings, {k \in 1..Len(headings) : Contains(headings[k][2], name)},
               max_len)

\* contains_any (lines 382-384)
contains_any(text, words) == AnyIn(lower(text), words)

(***************************************************************************)
(* candidate_ask, the context and the scored sentences (main.py 324-379)   *)
(***************************************************************************)
\* the number of entries of the cache, and of the transient history, that the context
\* is built from (the three [-10:] of lines 337-338)
HistWindow == 10

\* lines 339-347, for one entry: its "User: ..." / "Assistant: ..." pair, "" when the
\* entry is skipped; t is the stripped text
PairOf(r, t) ==
    IF t = "" \/ is_noise(t) THEN ""
    ELSE (IF r = "user" THEN "User:" ELSE "Assistant:") \o " " \o t

\* lines 339-348: the pairs of the entries of merged[-10:]
PairsOf(recent) ==
    NonEmpty([i \in 1..Len(recent) |-> PairOf(recent[i].role, strip(recent[i].text))])

\* lines 338-348: pairs
Pairs(merged) == PairsOf(LastN(merged, HistWindow))

\* lines 325-351: ctx.  history is the form field: absent (None or the empty string),
\* malformed (json.loads, or .get on an item, raises), or a list of {role, text} items.
Context(server_hist, history) ==
    IF history.kind = "list"
    THEN join(" | ", Pairs(LastN(server_hist, HistWindow) \o LastN(history.items, HistWindow)))
    ELSE ""

\* line 352: q_query
QQuery(ctx, q) == (IF ctx # "" THEN ctx \o " | " ELSE "") \o q

\* line 355: set(w.lower() for w in re.findall(r"[A-Za-z]{4,}", s))
Keywords(s) ==
    {lower(SubSeq(s, i, RunEnd(s, i, AlphaSet))) :
        i \in {i \in 1..Len(s) : /\ Ch(s, i) \in AlphaSet
                                 /\ (i = 1 \/ Ch(s, i - 1) \notin AlphaSet)
                                 /\ RunEnd(s, i, AlphaSet) >= i + 3}}

\* The embedding provider: pytorch_cos_sim(encode(a), encode(b)), in hundredths.  The
\* model is a black box to the handler; any fixed function of the two texts will do.
CosSim(a, b) == 20 + ((7 * Len(a) + 13 * Len(b)) % 61)

\* [\.!\?]\s+
SentenceEnds(s) ==
    [p \in {p \in 1..(Len(s) - 1) : Ch(s, p) \in {".", "!", "?"} /\ Ch(s, p + 1) \in SpaceSet}
        |-> RunEnd(s, p + 1, SpaceSet)]

\* line 361: the sentences of a chunk
Sentences(ch) == StripNonEmpty(Pieces(ch, Cuts(SentenceEnds(ch), 1)))

\* line 366: min(0.1, 0.02 * hits) if hits else 0.0, in hundredths
BoostOf(hits) == IF hits > 0 THEN Min(10, 2 * hits) ELSE 0

\* lines 363-366: the boost of a sentence; sl is the lowered sentence
Boost(kw, sl) == BoostOf(Cardinality({t \in kw : Contains(sl, t)}))

\* lines 361-367 for the sentences of one chunk that are not noise
ScoredOf(sim, kw, kept) ==
    [i \in 1..Len(kept) |-> <<sim + Boost(kw, lower(kept[i])), kept[i]>>]

\* the sentences that are not noise
NotNoisy(sents) == Filter(sents, {i \in 1..Len(sents) : ~is_noise(sents[i])})

\* lines 357-367 for one chunk: its (score, sentence) pairs
ScoredOfChunk(q_query, kw, ch) == ScoredOf(CosSim(q_query, ch), kw, NotNoisy(Sentences(ch)))

RECURSIVE Concat(_)
Concat(seqs) == IF seqs = <<>> THEN <<>> ELSE Head(seqs) \o Concat(Tail(seqs))

\* list.sort(key=lambda x: x[0], reverse=True): descending, equal keys keep their order
SortDesc(items) ==
    LET Rank(i) == Cardinality({j \in 1..Len(items) : items[j][1] > items[i][1]})
                   + Cardinality({j \in 1..(i - 1) : items[j][1] = items[i][1]}) + 1
    IN  [k \in 1..Len(items) |-> items[CHOOSE i \in 1..Len(items) : Rank(i) = k]]

\* lines 356-369: scored
Scored(q_query, kw, chunks) ==
    SortDesc(Concat([c \in 1..Len(chunks) |-> ScoredOfChunk(q_query, kw, chunks[c])]))

MaxSnippets == 3
SnippetLen == 250

\* the loop of lines 372-379, from entry i of scored on
RECURSIVE TopLoop(_, _, _, _)
RECURSIVE TopStep(_, _, _, _, _, _)
\* lines 373-377: one iteration; s is the cut sentence, sl its lowered text
TopStep(scored, i, seen, top_sents, s, sl) ==
    IF sl \in seen THEN TopLoop(scored, i + 1, seen, top_sents)
    ELSE TopLoop(scored, i + 1, seen \cup {sl}, Append(top_sents, <<scored[i][1], s>>))

TopLoop(scored, i, seen, top_sents) ==
    IF i > Len(scored) \/ Len(top_sents) >= MaxSnippets THEN top_sents
    ELSE TopStep(scored, i, seen, top_sents, Prefix(scored[i][2], SnippetLen),
                 lower(Prefix(scored[i][2], SnippetLen)))

\* lines 370-379: the top distinct sentences
TopSents(scored) == TopLoop(scored, 1, {}, <<>>)

(***************************************************************************)
(* candidate_ask, the intent handlers (main.py 381-499)                    *)
(***************************************************************************)
DigitVal(c) == (CHOOSE k \in 1..10 : Ch("0123456789", k) = c) - 1

\* \b(\d{1,2})\s*\+?\s*years?\b (IGNORECASE) matched at index p: the number of the
\* group, or -1 when there is no match at p
YearsAt(s, ls, p) ==
    LET two == p + 1 <= Len(s) /\ Ch(s, p + 1) \in DigitSet
        d == IF two THEN p + 1 ELSE p
        a == RunEnd(s, d + 1, SpaceSet)
        b == IF a + 1 <= Len(s) /\ Ch(s, a + 1) = "+" THEN a + 1 ELSE a
        c == RunEnd(s, b + 1, SpaceSet)
        ok == /\ Ch(s, p) \in DigitSet
              /\ Boundary(s, p)
              /\ \/ StartsAt(ls, c + 1, "years") /\ Boundary(s, c + 6)
                 \/ StartsAt(ls, c + 1, "year") /\ Boundary(s, c + 5)
    IN  IF ~ok THEN -1
        ELSE IF two THEN 10 * DigitVal(Ch(s, p)) + DigitVal(Ch(s, p + 1))
        ELSE DigitVal(Ch(s, p))

\* the numbers found in s, whose lowered text is ls
YearsIn(s, ls) == {YearsAt(s, ls, p) : p \in {i \in 1..Len(s) : Ch(s, i) \in DigitSet}} \ {-1}

\* the numbers re.findall returns for the pattern
Years(s) == YearsIn(s, lower(s))

\* str(n) for 0 <= n <= 99
NumStr(n) ==
    IF n < 10 THEN Ch("0123456789", n + 1)
    ELSE Ch("0123456789", (n \div 10) + 1) \o Ch("0123456789", (n % 10) + 1)

\* \b(CGPA|GPA)\s*[:\-]?\s*(\d+(?:\.\d+)?) (IGNORECASE) matched at index p: the text of
\* the second group, or "" when there is no match at p
GpaAt(s, ls, p) ==
    LET w == IF StartsAt(ls, p, "cgpa") THEN 4 ELSE IF StartsAt(ls, p, "gpa") THEN 3 ELSE 0
        a == RunEnd(s, p + w, SpaceSet)
        b == IF a + 1 <= Len(s) /\ Ch(s, a + 1) \in {":", "-"} THEN a + 1 ELSE a
        c == RunEnd(s, b + 1, SpaceSet)
        d == RunEnd(s, c + 1, DigitSet)
        e == IF d + 2 <= Len(s) /\ Ch(s, d + 1) = "." /\ Ch(s, d + 2) \in DigitSet
             THEN RunEnd(s, d + 2, DigitSet) ELSE d
    IN  IF w > 0 /\ Boundary(s, p) /\ d >= c + 1 THEN SubSeq(s, c + 1, e) ELSE ""

\* the second group of the leftmost of the matches that start at the indices at
GpaAmong(s, ls, at) == IF at = {} THEN "" ELSE GpaAt(s, ls, MinOf(at))

GpaIn(s, ls) == GpaAmong(s, ls, {p \in 1..Len(s) : GpaAt(s, ls, p) # ""})

\* cg[0][1] of line 422, or "" when findall returns nothing
FirstGpa(s) == GpaIn(s, lower(s))

\* \b(CGPA|GPA)\b on l, whose lowered text is ll
HasGpaWordIn(l, ll) ==
    \E p \in 1..Len(l) :
        /\ Boundary(l, p)
        /\ \/ StartsAt(ll, p, "cgpa") /\ Boundary(l, p + 4)
           \/ StartsAt(ll, p, "gpa") /\ Boundary(l, p + 3)

\* re.search(r"\b(CGPA|GPA)\b", l, flags=re.IGNORECASE)
HasGpaWord(l) == HasGpaWordIn(l, lower(l))

LeadershipTriggers ==
    {"lead", "leader", "managed", "manage", "team lead", "leadership", "supervis",
     "responsib", "owned", "ownership", "accountable", "coordinated", "organized"}
LeadershipEvidence ==
    {"led", "managed", "team lead", "leadership", "supervised", "mentored",
     "responsible for", "owned", "coordinated", "organized"}
ExperienceTriggers == {"year", "experience", "exp"}
GpaTriggers == {"cgpa", "gpa"}
EducationTriggers ==
    {"education", "college", "university", "degree", "btech", "b.tech", "b sc", "bsc",
     "mtech", "m.tech", "msc", "b.e", "be"}
EducationLineWords ==
    {"university", "college", "institute", "school", "b.tech", "btech", "b.e", "be",
     "m.tech", "mtech", "m.sc", "msc", "b.sc", "bsc", "cgpa", "gpa"}
InstitutionWords == {"university", "college", "institute", "school"}
ProjectTriggers ==
    {"project", "projects", "web", "website", "frontend", "backend", "full stack",
     "fullstack", "react", "node", "django", "flask", "html", "css", "javascript",
     "typescript", "api", "machine learning", "ml", "deep learning", "cnn", "lstm",
     "pytorch", "tensorflow"}
web_kw ==
    {"web", "website", "frontend", "backend", "full stack", "fullstack", "react", "next",
     "node", "express", "django", "flask", "html", "css", "javascript", "typescript", "api"}
ml_kw ==
    {"machine learning", "ml", "deep learning", "cnn", "lstm", "pytorch", "tensorflow",
     "model", "classification", "prediction"}
ProjectActionWords ==
    {"built", "developed", "implemented", "designed", "created", "classification",
     "prediction", "api", "app", "web", "model"}

\* [(1.0, e) for e in evidence]
AtOne(evidence) == [i \in 1..Len(evidence) |-> <<100, evidence[i]>>]

\* [x[:n] for x in seq]
PrefixEach(seq, n) == [i \in 1..Len(seq) |-> Prefix(seq[i], n)]

\* [s for _, s in pairs]
Seconds(pairs) == [i \in 1..Len(pairs) |-> pairs[i][2]]

\* [s for s in sents if contains_any(s, words)]
Having(sents, words) == Filter(sents, {i \in 1..Len(sents) : contains_any(sents[i], words)})

\* [l for l in lines if any(k in l.lower() for k in words)]
LinesWith(lines, words) == Filter(lines, {i \in 1..Len(lines) : AnyIn(lower(lines[i]), words)})

\* x if x else y
Or(x, y) == IF x # <<>> THEN x ELSE y

\* lines 395-400: answer and top_sents
LeadershipOf(evidence) ==
    [intent |-> "leadership",
     answer |-> IF evidence # <<>> THEN "Yes ~ shows leadership experience."
                ELSE "Not explicitly mentioned ~ no clear leadership evidence found.",
     top_sents |-> AtOne(Prefix(evidence, MaxSnippets))]

\* lines 386-400
Leadership(scored, top_sents) ==
    LeadershipOf(Or(Having(Seconds(top_sents), LeadershipEvidence),
                    Prefix(PrefixEach(Having(Seconds(Prefix(scored, 50)), LeadershipEvidence),
                                      SnippetLen), 2)))

\* lines 405-417: answer and top_sents
ExperienceOf(years, exp_sents, top_sents) ==
    [intent |-> "experience",
     answer |-> IF years # {}
                THEN "Approximately " \o NumStr(MaxOf(years)) \o " years of experience mentioned."
                ELSE "Years of experience are not clearly quantified.",
     top_sents |-> IF exp_sents # <<>> THEN AtOne(exp_sents) ELSE top_sents]

\* [s for s in sents if the pattern of Years is found in s]
WithYears(sents) == Filter(sents, {i \in 1..Len(sents) : Years(sents[i]) # {}})

\* lines 401-417
Experience(txt, scored, top_sents) ==
    ExperienceOf(Years(txt),
                 Prefix(PrefixEach(WithYears(Seconds(scored)), SnippetLen), MaxSnippets),
                 top_sents)

\* lines 422-429: answer and top_sents; val is the number found in the text, src the
\* indices of the lines that hold the word
GpaOf(val, lines, src) ==
    IF val # ""
    THEN [intent |-> "gpa", answer |-> "CGPA/GPA: " \o val,
          top_sents |-> IF src # {} THEN <<<<100, Prefix(lines[MinOf(src)], 200)>>>> ELSE <<>>]
    ELSE [intent |-> "gpa", answer |-> "CGPA/GPA not explicitly mentioned.",
          top_sents |-> <<>>]

\* lines 418-429
Gpa(txt, lines) == GpaOf(FirstGpa(txt), lines, {i \in 1..Len(lines) : HasGpaWord(lines[i])})

\* lines 441-450: answer and top_sents; inst holds the indices of the lines that name
\* an institution
EducationOf(edu_lines, inst, top_sents) ==
    IF edu_lines # <<>>
    THEN [intent |-> "education",
          answer |-> "Education: " \o (IF inst # {} THEN edu_lines[MinOf(inst)] ELSE edu_lines[1]),
          top_sents |-> AtOne(Prefix(edu_lines, MaxSnippets))]
    ELSE [intent |-> "education", answer |-> "Education details not clearly found.",
          top_sents |-> top_sents]

EducationFrom(edu_lines, top_sents) ==
    EducationOf(edu_lines,
                {i \in 1..Len(edu_lines) : AnyIn(lower(edu_lines[i]), InstitutionWords)},
                top_sents)

\* lines 430-450
Education(lines, headings, top_sents) ==
    EducationFrom(Or(section_slice(lines, headings, "education", 12),
                     Prefix(PrefixEach(LinesWith(lines, EducationLineWords), 200), 3)),
                  top_sents)

\* lines 468-476: the test a project line passes, on the lowered line
Passes(pll, want_web, want_ml) ==
    /\ want_web => AnyIn(pll, web_kw)
    /\ want_ml => AnyIn(pll, ml_kw)
    /\ Contains(pll, "project") \/ AnyIn(pll, ProjectActionWords)

\* lines 477-490: answer and top_sents; use holds the lines shown
ProjectsOf(proj_lines, use, want_web, want_ml, top_sents) ==
    IF proj_lines # <<>>
    THEN [intent |-> "projects",
          answer |-> (IF want_web THEN "Web projects: "
                      ELSE IF want_ml THEN "ML projects: " ELSE "Projects: ") \o use[1],
          top_sents |-> AtOne(use)]
    ELSE [intent |-> "projects",
          answer |-> "No explicit projects matching that topic were found.",
          top_sents |-> top_sents]

\* lines 464-490
ProjectsFrom(proj_lines, want_web, want_ml, top_sents) ==
    ProjectsOf(proj_lines,
               Or(Prefix(Filter(proj_lines,
                                {i \in 1..Len(proj_lines) :
                                    Passes(lower(proj_lines[i]), want_web, want_ml)}),
                         MaxSnippets),
                  Prefix(proj_lines, MaxSnippets)),
               want_web, want_ml, top_sents)

\* lines 451-490
Projects(ql, lines, headings, top_sents) ==
    ProjectsFrom(Or(section_slice(lines, headings, "project", 18),
                    Prefix(PrefixEach(LinesWith(lines, {"project"} \cup web_kw \cup ml_kw), 200), 8)),
                 AnyIn(ql, web_kw), AnyIn(ql, ml_kw), top_sents)

\* lines 493-499: answer and top_sents; filtered holds the top sentences with a keyword
GeneralOf(filtered, top_sents) ==
    IF filtered # <<>>
    THEN [intent |-> "general",
          answer |-> "From the resume: " \o join("; ", Seconds(Prefix(filtered, 2))),
          top_sents |-> top_sents]
    ELSE [intent |-> "general",
          answer |-> "I couldn't find specific information related to your question.",
          top_sents |-> <<>>]

\* lines 491-499
General(kw, top_sents) ==
    GeneralOf(Filter(top_sents, {i \in 1..Len(top_sents) : AnyIn(lower(top_sents[i][2]), kw)}),
              top_sents)

\* lines 287-324: lines, headings and chunks of the cleaned text
DocumentLines(txt, lines) ==
    [txt |-> txt, lines |-> lines, headings |-> Headings(lines),
     chunks |-> _create_chunks(txt, 400)]

DocumentOf(txt) == DocumentLines(txt, Lines(txt))

\* The document side of a request, which only the resume text decides (lines 259-324)
Document(resume_text) == DocumentOf(Cleanup(resume_text))

\* The chain with the experience test moved in front of the leadership test
DispatchExperienceFirst(ql, doc, kw, scored, top_sents) ==
    IF AnyIn(ql, ExperienceTriggers) THEN Experience(doc.txt, scored, top_sents)
    ELSE IF AnyIn(ql, LeadershipTriggers) THEN Leadership(scored, top_sents)
    ELSE IF AnyIn(ql, GpaTriggers) THEN Gpa(doc.txt, doc.lines)
    ELSE IF AnyIn(ql, EducationTriggers) THEN Education(doc.lines, doc.headings, top_sents)
    ELSE IF AnyIn(ql, ProjectTriggers) THEN Projects(ql, doc.lines, doc.headings, top_sents)
    ELSE General(kw, top_sents)

\* The if/elif chain of lines 386-499 on ql, the lowered literal question (line 381);
\* doc is Document(resume_text)
Dispatch(ql, doc, kw, scored, top_sents) ==
    IF AnyIn(ql, LeadershipTriggers) THEN Leadership(scored, top_sents)
    ELSE IF AnyIn(ql, ExperienceTriggers) THEN Experience(doc.txt, scored, top_sents)
    ELSE IF AnyIn(ql, GpaTriggers) THEN Gpa(doc.txt, doc.lines)
    ELSE IF AnyIn(ql, EducationTriggers) THEN Education(doc.lines, doc.headings, top_sents)
    ELSE IF AnyIn(ql, ProjectTriggers) THEN Projects(ql, doc.lines, doc.headings, top_sents)
    ELSE General(kw, top_sents)

\* The result with the score of the first snippet only
ResultFirstScore(q, ctx, kw, out) ==
    [q |-> q, ctx |-> ctx, kw |-> kw, intent |-> out.intent,
     result |-> [answer |-> strip(out.answer),
                 snippets |-> [i \in 1..Len(out.top_sents) |-> strip(out.top_sents[i][2])],
                 scores |-> [i \in 1..Min(1, Len(out.top_sents)) |-> out.top_sents[i][1]]]]

\* lines 500-504: result, with the locals the handler computed it from; out is what
\* the branch taken left in answer and top_sents
Result(q, ctx, kw, out) ==
    [q |-> q, ctx |-> ctx, kw |-> kw, intent |-> out.intent,
     result |-> [answer |-> strip(out.answer),
                 snippets |-> [i \in 1..Len(out.top_sents) |-> strip(out.top_sents[i][2])],
                 scores |-> [i \in 1..Len(out.top_sents) |-> out.top_sents[i][1]]]]

\* lines 370-504
Routed(q, ctx, kw, doc, scored) ==
    Result(q, ctx, kw, Dispatch(lower(q), doc, kw, scored, TopSents(scored)))

\* lines 356-504
Ranked(q, ctx, kw, doc) == Routed(q, ctx, kw, doc, Scored(QQuery(ctx, q), kw, doc.chunks))

\* The keywords taken from the question alone
AnsweredKeywordsOfQuestion(q, ctx, doc) == Ranked(q, ctx, Keywords(q), doc)

\* lines 352-504: kw is taken from q_query, the context followed by the question
Answered(q, ctx, doc) == Ranked(q, ctx, Keywords(QQuery(ctx, q)), doc)

\* lines 257-504: what the handler computes from the request and the transcript that
\* chat_store.get returned
Answer(question, doc, server_hist, history) ==
    Answered(strip(question), Context(server_hist, history), doc)

(***************************************************************************)
(* Requests to candidate_ask.  The handler is a coroutine with no await:   *)
(* the event loop runs each request to its end before the next starts.     *)
(***************************************************************************)
Resumes ==
    [rich |-> "Jane Roe\njane.roe@mail.com | +1 555 123 4567\nEducation\nB.Tech in Computer Science at State University, CGPA: 8.7 overall.\nExperience\nLed a team of five engineers for 3 years at Acme Corp. Built a web dashboard project with React and Flask.\nProjects\nDeveloped a machine learning model for churn prediction.",
     plain |-> "John Smith. Worked as a data analyst preparing weekly sales reports for customers.",
     \* nothing is left of this one after the cleanup of lines 259-265
     blank |-> "(cid:12)",
     \* heading lines with a body under each; the first line that holds the word GPA
     \* is not the line that holds the value
     sections |-> "Education\nStudied physics and mathematics for four years in Paris.\nMaintained a high GPA during all semesters of the course.\nFinal result was CGPA: 9.1 on a ten point scale overall.\nProjects\nWrote a compiler for a small language during the summer."]

\* Document(resume_text) of each resume
Documents ==
    [rich |-> Document(Resumes.rich), plain |-> Document(Resumes.plain),
     blank |-> Document(Resumes.blank), sections |-> Document(Resumes.sections)]

Questions ==
    {"Did they lead a team?",
     "How many years of experience?",
     "What is their CGPA?",
     "Which university did they attend?",
     "Any machine learning projects?",
     "Tell me about hobbies",
     "Did they lead projects for years?",
     "Years of experience at university?",
     "GPA at college and projects"}

Histories ==
    {NoHistory,
     [kind |-> "malformed", items |-> <<>>],
     [kind |-> "list", items |-> <<>>],
     [kind |-> "list",
      items |-> <<[role |-> "user", text |-> "Tell me about the machine learning work"],
                  [role |-> "assistant", text |-> "ok"]>>],
     [kind |-> "list",
      items |-> <<[role |-> "user", text |-> "The first question asked about leadership"]>>
                \o [i \in 1..HistWindow |-> [role |-> "assistant", text |-> "ok"]]]}


\* Conversation ids of a request: "" is the form field left out (None) or sent empty
AskCids == {"", "c1"}

\* The append of lines 505-510 that raises, if one does
Fails == {"none", "first", "second"}

\* The questions that open a conversation
FirstQuestions == {"Any machine learning projects?", "Tell me about hobbies"}

\* What chat_store.get returns to the request that follows FirstAsk(question, resume)
\* within the ttl
FirstTranscript(question, resume) ==
    LET a == Answer(question, Documents[resume], <<>>, NoHistory)
    IN  LastN(<<[role |-> "user", text |-> a.q],
                [role |-> "assistant", text |-> a.result.answer]>>, max_messages)

\* The transcripts chat_store.get returns to the requests of the model
ServerHists ==
    {<<>>} \cup {FirstTranscript(question, resume) :
                    question \in FirstQuestions, resume \in DOMAIN Resumes}

\* Answer, computed once for each request of the model
AnswerOf ==
    [question \in Questions, resume \in DOMAIN Resumes,
     server_hist \in ServerHists, history \in Histories |->
        Answer(question, Documents[resume], server_hist, history)] @@ <<>>

\* The appends in the order answer, question
RememberAnswerFirst(d, cid, q, answer, t, n, fail) ==
    LET d1 == IF fail = "first" THEN d ELSE add(d, cid, "assistant", answer, t, n + 1)
    IN  IF fail = "none" THEN add(d1, cid, "user", q, t, n + 2) ELSE d1

\* lines 505-510: the two chat_store.add calls of the try block; an add that raises
\* leaves the store as it was and the block is left
Remember(d, cid, q, answer, t, n, fail) ==
    LET d1 == IF fail = "first" THEN d ELSE add(d, cid, "user", q, t, n + 1)
    IN  IF fail = "none" THEN add(d1, cid, "assistant", answer, t, n + 2) ELSE d1

\* add calls that returned
Added(cid, fail) ==
    IF cid = "" THEN 0 ELSE IF fail = "none" THEN 2 ELSE IF fail = "second" THEN 1 ELSE 0

\* The exception of the append leaves the handler: the framework answers 500
ResponseRaises(result, fail) ==
    IF fail = "none"
    THEN [status |-> 200, result |-> result]
    ELSE [status |-> 500, result |-> [answer |-> "", snippets |-> <<>>, scores |-> <<>>]]

\* lines 508-511: except Exception: pass; return result
Response(result, fail) == [status |-> 200, result |-> result]

\* lines 500-511 as the step of the handler: server_hist is what chat_store.get
\* returned, read the store it left, a what lines 257-504 computed
Replied(question, resume, candidate_id, history, fail, phase, server_hist, read, a) ==
    /\ data' = IF candidate_id # ""
               THEN Remember(read, candidate_id, a.q, a.result.answer, now, nadds, fail)
               ELSE read
    /\ nadds' = nadds + Added(candidate_id, fail)
    /\ ask' = [phase |-> phase, question |-> question, resume |-> resume,
               cid |-> candidate_id, history |-> history, fail |-> fail,
               server_hist |-> server_hist, q |-> a.q, ctx |-> a.ctx, kw |-> a.kw,
               intent |-> a.intent, result |-> Response(a.result, fail).result,
               status |-> Response(a.result, fail).status]
    /\ UNCHANGED <<now, log, stale, ret>>
    /\ UNCHANGED <<thVars, rankVars>>

\* Answer of a request, from the table when the transcript is one of the table's
AnswerFor(question, resume, server_hist, history) ==
    IF server_hist \in ServerHists
    THEN AnswerOf[question, resume, server_hist, history]
    ELSE Answer(question, Documents[resume], server_hist, history)

\* The whole handler (lines 248-511) on one request; phase is the model's count of
\* the conversation's requests
candidate_ask(question, resume, candidate_id, history, fail, phase) ==
    Replied(question, resume, candidate_id, history, fail, phase,
            IF candidate_id # "" THEN get(data, candidate_id, now) ELSE <<>>,
            IF candidate_id # "" THEN getStore(data, candidate_id, now) ELSE data,
            AnswerFor(question, resume,
                      IF candidate_id # "" THEN get(data, candidate_id, now) ELSE <<>>,
                      history))

\* The request that opens a conversation
FirstAsk(question, resume) ==
    /\ ask.phase = "fresh"
    /\ candidate_ask(question, resume, "c1", NoHistory, "none", "warm")

\* Any request
Ask(question, resume, candidate_id, history, fail) ==
    /\ ask.phase # "done"
    /\ candidate_id = "" => fail = "none"
    /\ candidate_ask(question, resume, candidate_id, history, fail, "done")

\* The conversation is left alone for longer than the ttl
AskTick ==
    /\ ask.phase = "warm"
    /\ now + ttl + 1 <= MaxNow
    /\ now' = now + ttl + 1
    /\ UNCHANGED <<data, nadds, log, stale, ret, ask>>
    /\ UNCHANGED <<thVars, rankVars>>

AskNext ==
    \/ \E question \in FirstQuestions, resume \in DOMAIN Resumes : FirstAsk(question, resume)
    \/ \E question \in Questions, resume \in DOMAIN Resumes, candidate_id \in AskCids,
          history \in Histories, fail \in Fails :
          Ask(question, resume, candidate_id, history, fail)
    \/ AskTick

SpecAsk == StoreInit /\ [][AskNext]_vars

(***************************************************************************)
(* The same request sent twice: the second request carries the form fields *)
(* of the first and meets the cache the first one left.                    *)
(***************************************************************************)
AskSame ==
    /\ ask.phase = "done"
    /\ candidate_ask(ask.question, ask.resume, ask.cid, ask.history, ask.fail, "again")

RepeatNext ==
    \/ \E question \in Questions, resume \in DOMAIN Resumes, candidate_id \in AskCids,
          history \in Histories :
          ask.phase = "fresh" /\ Ask(question, resume, candidate_id, history, "none")
    \/ AskSame

SpecRepeat == StoreInit /\ [][RepeatNext]_vars

(***************************************************************************)
(* ResumeScorer (processors/scorer.py).  A similarity is an integer number *)
(* of hundredths; a score the code holds as a float is the exact rational  *)
(* [num, den] (den > 0) of the same arithmetic, without the rounding error *)
(* of the floats.                                                          *)
(***************************************************************************)
\* util.pytorch_cos_sim(job_embedding, chunk_embedding) of lines 43 and 56-57, in
\* hundredths: a deterministic provider whose similarities span [-1, 1]
pytorch_cos_sim(job_description, chunk) ==
    ((7 * Len(job_description) + 13 * Len(chunk)) % 201) - 100

\* line 51: chunk_size=500
ScoreChunkSize == 500

\* lines 231-235
keywords_db ==
    <<"python", "javascript", "java", "react", "node", "sql", "cloud",
      "api", "database", "frontend", "backend", "fullstack", "mobile",
      "devops", "agile", "testing", "performance", "security", "scalability">>

\* lines 236-244: aliases.get(keyword, [])
aliases(keyword) ==
    CASE keyword = "node" -> {"node.js", "nodejs", "express"}
      [] keyword = "react" -> {"react.js", "reactjs", "nextjs", "next.js"}
      [] keyword = "sql" -> {"postgresql", "mysql", "psql", "mssql", "sqlite"}
      [] keyword = "cloud" -> {"aws", "amazon web services", "gcp", "google cloud", "azure"}
      [] keyword = "devops" -> {"ci/cd", "cicd", "pipeline", "docker", "kubernetes"}
      [] keyword = "testing" -> {"jest", "pytest", "unit testing", "e2e", "cypress"}
      [] keyword = "api" -> {"rest", "graphql", "restful"}
      [] OTHER -> {}

\* lines 247-255 on the lowered text: the keywords found, by name or by alias, in the
\* order of keywords_db (each at most once, so lines 257-263 change nothing)
KeywordsIn(text_lower) ==
    Filter(keywords_db,
           {i \in 1..Len(keywords_db) :
               Contains(text_lower, keywords_db[i]) \/ AnyIn(text_lower, aliases(keywords_db[i]))})

\* scorer.py 220-263
_extract_keywords(text) == KeywordsIn(lower(text))

\* lines 201-208
skills_db ==
    <<"python", "javascript", "typescript", "java", "c++", "c#", "php", "ruby", "go", "rust",
      "sql", "postgresql", "mysql", "mongodb", "redis", "elasticsearch",
      "react", "vue", "angular", "nextjs", "node.js", "express", "django", "flask",
      "aws", "azure", "gcp", "docker", "kubernetes", "jenkins", "git",
      "rest", "graphql", "api", "microservices",
      "machine learning", "deep learning", "tensorflow", "pytorch">>

UpperOf == [c \in CharsOf(LowerChars) |-> Ch(UpperChars, CHOOSE k \in 1..26 : Ch(LowerChars, k) = c)]

\* str.title on lowered text: the first letter of every run of letters in upper case
RECURSIVE title(_, _)
title(s, i) ==
    IF i > Len(s) THEN ""
    ELSE (IF Ch(s, i) \in DOMAIN UpperOf /\ (i = 1 \/ Ch(s, i - 1) \notin AlphaSet)
          THEN UpperOf[Ch(s, i)] ELSE Ch(s, i)) \o title(s, i + 1)

TitleEach(seq) == [k \in 1..Len(seq) |-> title(seq[k], 1)]

\* lines 210-218 on the lowered texts
MatchingSkillsIn(resume_lower, job_lower) ==
    Prefix(TitleEach(Filter(skills_db,
                {i \in 1..Len(skills_db) :
                    Contains(resume_lower, skills_db[i]) /\ Contains(job_lower, skills_db[i])})),
           10)

\* scorer.py 189-218
_extract_matching_skills(resume_text, job_description) ==
    MatchingSkillsIn(lower(resume_text), lower(job_description))

\* resume_data.get(key) or fallback, for a list and for a string
GetList(d, key, fallback) == IF key \in DOMAIN d /\ Len(d[key]) > 0 THEN d[key] ELSE fallback
GetStr(d, key, fallback) == IF key \in DOMAIN d /\ Len(d[key]) > 0 THEN d[key] ELSE fallback

\* the keys score_resumes reads with resume_data[key] (lines 48, 122, 129, 134)
RequiredKeys == {"raw_text", "entities", "filename", "summary"}

RECURSIVE SumOf(_)
SumOf(seq) == IF seq = <<>> THEN 0 ELSE Head(seq) + SumOf(Tail(seq))

\* lines 54-58
ChunkScores(job_description, chunks) ==
    [i \in 1..Len(chunks) |-> pytorch_cos_sim(job_description, chunks[i])]

\* line 62: float(np.mean(chunk_scores)); _create_chunks returns at least one chunk
Mean(chunk_scores) == [num |-> SumOf(chunk_scores), den |-> 100 * Len(chunk_scores)]

\* lines 95-96
SkillMatchRatio(job_keywords, resume_keywords) ==
    IF job_keywords # <<>>
    THEN [num |-> Cardinality({job_keywords[i] : i \in 1..Len(job_keywords)}
                              \cap {resume_keywords[i] : i \in 1..Len(resume_keywords)}),
          den |-> Len(job_keywords)]
    ELSE [num |-> 0, den |-> 1]

\* the weights of line 114, in hundredths
SemanticWeight == 85
SkillWeight == 15

\* line 114
Combined(semantic_score, skill_match_ratio) ==
    [num |-> SemanticWeight * semantic_score.num * skill_match_ratio.den
             + SkillWeight * skill_match_ratio.num * semantic_score.den,
     den |-> 100 * semantic_score.den * skill_match_ratio.den]

\* int(x) for x = 100 * num / den >= 0: the integer part
IntOf(num, den) == (100 * num) \div den

\* clamp(round(x), 0, 100): the nearest integer, the even one at a half
MatchPercentageRounded(combined_score) ==
    IF combined_score.num <= 0 THEN 0
    ELSE IF combined_score.num >= combined_score.den THEN 100
    ELSE IF 2 * ((100 * combined_score.num) % combined_score.den) > combined_score.den
              \/ (2 * ((100 * combined_score.num) % combined_score.den) = combined_score.den
                  /\ IntOf(combined_score.num, combined_score.den) % 2 = 1)
         THEN IntOf(combined_score.num, combined_score.den) + 1
         ELSE IntOf(combined_score.num, combined_score.den)

\* The percentage without the clamp
MatchPercentageUnclamped(combined_score) ==
    IF combined_score.num >= 0 THEN IntOf(combined_score.num, combined_score.den)
    ELSE -IntOf(-combined_score.num, combined_score.den)

\* line 115: int(min(100, max(0, combined_score * 100)))
MatchPercentage(combined_score) ==
    IF combined_score.num <= 0 THEN 0
    ELSE IF combined_score.num >= combined_score.den THEN 100
    ELSE IntOf(combined_score.num, combined_score.den)

\* line 98
MissingSkills(jd_skills, resume_keywords) ==
    Filter(jd_skills,
           {i \in 1..Len(jd_skills) :
               jd_skills[i] \notin {resume_keywords[j] : j \in 1..Len(resume_keywords)}})

\* entities.get(label, [])
Entity(entities, label) == IF label \in DOMAIN entities THEN entities[label] ELSE <<>>

\* lines 113-146: the ScoreResult of one document
ScoreRow(resume_data, job_keywords, resume_keywords, semantic_score, skill_match_ratio, skills) ==
    [name |-> GetStr(resume_data, "name", ""),
     filename |-> resume_data.filename,
     score |-> Combined(semantic_score, skill_match_ratio),
     semantic_score |-> semantic_score,
     skill_match_ratio |-> skill_match_ratio,
     match_percentage |-> MatchPercentage(Combined(semantic_score, skill_match_ratio)),
     summary |-> resume_data.summary,
     skills |-> skills,
     experience |-> Prefix(Entity(resume_data.entities, "ORG"), 5),
     education |-> Prefix(GetList(resume_data, "education",
                                Entity(resume_data.entities, "EDUCATION")), 3),
     jd_skills |-> job_keywords,
     missing_skills |-> MissingSkills(job_keywords, resume_keywords),
     experience_signal |-> [num |-> Min(Len(Entity(resume_data.entities, "ORG")), 8),
                            den |-> 8],
     raw_text |-> resume_data.raw_text]

\* lines 48-146 on one document whose keys are all there
ScoreOf(job_description, resume_data, job_keywords, resume_keywords) ==
    ScoreRow(resume_data, job_keywords, resume_keywords,
             Mean(ChunkScores(job_description,
                              _create_chunks(resume_data.raw_text, ScoreChunkSize))),
             SkillMatchRatio(job_keywords, resume_keywords),
             GetList(resume_data, "skills",
                   _extract_matching_skills(resume_data.raw_text, job_description)))

\* One iteration of the loop of lines 47-146 raises: a key read with resume_data[key]
\* is not there (KeyError), or the embedding provider raises on the document's text
Raises(resume_data, broken) ==
    \/ ~(RequiredKeys \subseteq DOMAIN resume_data)
    \/ resume_data.raw_text \in broken

\* lines 48-146 on one document
Score(job_description, resume_data) ==
    ScoreOf(job_description, resume_data, _extract_keywords(job_description),
            _extract_keywords(resume_data.raw_text))

\* list.sort(key=..., reverse=True): the place of item i, after the items of greater
\* key and after the earlier items of equal key
RankOfTiesReversed(keys, i) ==
    Cardinality({j \in 1..Len(keys) : keys[j] > keys[i]})
    + Cardinality({j \in (i + 1)..Len(keys) : keys[j] = keys[i]}) + 1

RankOf(keys, i) ==
    Cardinality({j \in 1..Len(keys) : keys[j] > keys[i]})
    + Cardinality({j \in 1..(i - 1) : keys[j] = keys[i]}) + 1

\* items.sort(key=lambda x: keys of x, reverse=True)
SortReverse(items, keys) ==
    [k \in 1..Len(items) |-> items[CHOOSE i \in 1..Len(items) : RankOf(keys, i) = k]]

(***************************************************************************)
(* sort_resumes (main.py 97-238).  An upload is the file with what the     *)
(* collaborators make of it: text is what extract_text returns, name,      *)
(* entities, summary, skills and education what _infer_name and the        *)
(* resume processor return; fault says which call raises on this file.     *)
(* The id of a candidate (a fresh uuid4) and analysisTime are left out.    *)
(***************************************************************************)
\* lines 150-184: the upload reaches processed_resumes
Kept(upload) ==
    /\ upload.filename # ""
    /\ upload.content # ""
    /\ upload.fault # "extract"
    /\ upload.text # ""

\* lines 173-181
ProcessedOf(upload) ==
    [name |-> upload.name, filename |-> upload.filename, raw_text |-> upload.text,
     entities |-> upload.entities, summary |-> upload.summary, skills |-> upload.skills,
     education |-> upload.education]

(***************************************************************************)
(* Requests to sort_resumes and calls of score_resumes.                    *)
(***************************************************************************)
\* files of one request, documents of one call (bound of the model)
MaxFiles == 2

JobDescriptions ==
    {"", "   ",
     "Backend engineer with Python and PostgreSQL",
     "Looking for a chef",
     "Senior frontend developer: React, JavaScript, testing and cloud",
     "DevOps engineer for our security team, CI/CD and Kubernetes",
     "Python developer"}

Enriched(filename, text, name, orgs, skills, education) ==
    [filename |-> filename, content |-> "%PDF", text |-> text, fault |-> "none",
     name |-> name, entities |-> [PERSON |-> <<name>>, ORG |-> orgs, DATE |-> <<>>],
     summary |-> Prefix(text, 40), skills |-> skills, education |-> education]

BackendUpload ==
    Enriched("backend.pdf",
             "Backend Engineer at Acme Corp. Built REST APIs in Python with PostgreSQL.",
             "Ann Lee", <<"Acme Corp">>, <<"Python", "Sql">>, <<"B.Tech, State University">>)

CookUpload ==
    Enriched("cook.pdf", "Pastry cook at a bakery. Bread, cakes and pies for weddings and parties.", "Bo Chen", <<>>, <<>>, <<>>)

ReactUpload ==
    Enriched("react.pdf",
             "Frontend developer. React and JavaScript. Unit testing with Jest on AWS.",
             "Cy Diaz", <<"Initech Ltd", "Globex Corp">>, <<>>, <<>>)

ClerkUpload ==
    Enriched("clerk.pdf",
             "Maintained the reporting tools of the finance team for several years. Prepared weekly summaries of sales figures for the regional managers. Trained new colleagues in the use of the spreadsheet templates. Organised the yearly inventory of the warehouse together with the auditors. Answered customer requests by letter and on the counter during the summer season. Kept the archive of invoices and delivery notes in order for the tax inspection. Wrote the minutes of the monthly meetings of the works council. Planned the holiday rota of the department and the training days of the apprentices.",
             "Di Ernst", <<>>, <<>>, <<>>)

Uploads ==
    {BackendUpload, CookUpload, ReactUpload, ClerkUpload,
     \* extract_text or a call of the resume processor raises on the file
     [Enriched("torn.pdf", "Python developer.", "Ed Fox", <<>>, <<>>, <<>>)
        EXCEPT !.fault = "extract"],
     \* the embedding provider raises on the text of the file
     [Enriched("odd.pdf", "Security engineer. Cloud and DevOps.", "Flo Gray", <<>>, <<>>, <<>>)
        EXCEPT !.fault = "score"],
     \* an empty file, and a file extract_text finds no text in
     [Enriched("empty.pdf", "Python.", "", <<>>, <<>>, <<>>) EXCEPT !.content = ""],
     Enriched("scan.pdf", "", "", <<>>, <<>>, <<>>)}

\* the files of a request
Batches == UNION {[1..n -> Uploads] : n \in 0..MaxFiles}

\* d without the key
Without(d, key) == [k \in DOMAIN d \ {key} |-> d[k]]

\* Documents as score_resumes may be handed them: with every enrichment, and with one
\* enrichment field empty or not there
ProcessedDocs ==
    {ProcessedOf(BackendUpload), ProcessedOf(CookUpload), ProcessedOf(ReactUpload),
     ProcessedOf(ClerkUpload),
     [ProcessedOf(BackendUpload) EXCEPT !.entities = <<>>],
     [ProcessedOf(BackendUpload) EXCEPT !.skills = <<>>],
     [ProcessedOf(BackendUpload) EXCEPT !.education = <<>>],
     [ProcessedOf(BackendUpload) EXCEPT !.summary = ""],
     Without(ProcessedOf(BackendUpload), "entities"),
     Without(ProcessedOf(BackendUpload), "skills"),
     Without(ProcessedOf(BackendUpload), "education"),
     Without(ProcessedOf(BackendUpload), "summary")}

\* the documents of a call
DocLists == UNION {[1..n -> ProcessedDocs] : n \in 1..MaxFiles}

(***************************************************************************)
(* ResumeScorer.score_resumes (scorer.py 27-151) and the rest of           *)
(* sort_resumes.                                                           *)
(***************************************************************************)
\* Score, computed once for each job description and document of the model
ScoreTable ==
    [job_description \in JobDescriptions,
     resume_data \in {d \in ProcessedDocs \cup {ProcessedOf(u) : u \in Uploads} :
                         RequiredKeys \subseteq DOMAIN d} |->
        Score(job_description, resume_data)] @@ <<>>

\* lines 47-146 in input order, when no iteration raises
ScoredResumes(job_description, processed_resumes) ==
    [i \in 1..Len(processed_resumes) |-> ScoreTable[job_description, processed_resumes[i]]]

\* lines 148-151
Ranking(scored_resumes) ==
    SortReverse(scored_resumes,
                [i \in 1..Len(scored_resumes) |-> scored_resumes[i].match_percentage])

\* scorer.py 27-151: the exception of an iteration leaves the method (raised), else the
\* ranked list is returned; before is the list of line 146 before the sort
score_resumes(job_description, processed_resumes, broken) ==
    IF \E i \in 1..Len(processed_resumes) : Raises(processed_resumes[i], broken)
    THEN [raised |-> TRUE, before |-> <<>>, rows |-> <<>>]
    ELSE [raised |-> FALSE,
          before |-> ScoredResumes(job_description, processed_resumes),
          rows |-> Ranking(ScoredResumes(job_description, processed_resumes))]

\* lines 148-184
Processed(resumes) ==
    [i \in 1..Len(Filter(resumes, {j \in 1..Len(resumes) : Kept(resumes[j])})) |->
        ProcessedOf(Filter(resumes, {j \in 1..Len(resumes) : Kept(resumes[j])})[i])]

\* the texts on which the embedding provider raises
Broken(resumes) == {resumes[i].text : i \in {j \in 1..Len(resumes) : resumes[j].fault = "score"}}

\* lines 197-217
CandidateOf(score_data) ==
    [name |-> score_data.name, filename |-> score_data.filename, score |-> score_data.score,
     matchPercentage |-> score_data.match_percentage,
     semanticScore |-> score_data.semantic_score,
     skillMatchRatio |-> score_data.skill_match_ratio,
     experienceSignal |-> score_data.experience_signal,
     summary |-> score_data.summary, extractedSkills |-> score_data.skills,
     extractedExperience |-> score_data.experience,
     extractedEducation |-> score_data.education,
     jdSkills |-> score_data.jd_skills, missingSkills |-> score_data.missing_skills,
     rawText |-> score_data.raw_text]

\* lines 196-221
Candidates(scores_data) ==
    SortReverse([i \in 1..Len(scores_data) |-> CandidateOf(scores_data[i])],
                [i \in 1..Len(scores_data) |-> scores_data[i].match_percentage])

\* lines 189-238: the response to a request with processed resumes, from what
\* score_resumes did
Responded(job_description, resumes, processed, scored) ==
    IF scored.raised
    THEN [phase |-> "sorted", job_description |-> job_description, resumes |-> resumes,
          processed |-> processed, broken |-> Broken(resumes), raised |-> TRUE,
          before |-> <<>>, scored |-> <<>>, candidates |-> <<>>, status |-> 500]
    ELSE [phase |-> "sorted", job_description |-> job_description, resumes |-> resumes,
          processed |-> processed, broken |-> Broken(resumes), raised |-> FALSE,
          before |-> scored.before, scored |-> scored.rows,
          candidates |-> Candidates(scored.rows), status |-> 200]

\* lines 116-120 and 186-187: raise HTTPException(status_code=400, ...)
Rejected(job_description, resumes, processed) ==
    [phase |-> "sorted", job_description |-> job_description, resumes |-> resumes,
     processed |-> processed, broken |-> Broken(resumes), raised |-> FALSE,
     before |-> <<>>, scored |-> <<>>, candidates |-> <<>>, status |-> 400]

\* lines 147-238
SortProcessed(job_description, resumes, processed) ==
    IF processed = <<>>
    THEN Rejected(job_description, resumes, processed)
    ELSE Responded(job_description, resumes, processed,
                   score_resumes(job_description, processed, Broken(resumes)))

\* main.py 97-238
sort_resumes(job_description, resumes) ==
    IF strip(job_description) = "" \/ resumes = <<>>
    THEN Rejected(job_description, resumes, <<>>)
    ELSE SortProcessed(job_description, resumes, Processed(resumes))

\* A request to the endpoint
SortResumes(job_description, resumes) ==
    /\ sorted.phase = "fresh"
    /\ sorted' = sort_resumes(job_description, resumes)
    /\ UNCHANGED <<storeVars, thVars, ask, chunked, scoring>>

\* the record of a call of score_resumes
Called(job_description, processed_resumes, scored) ==
    [phase |-> "scored", job_description |-> job_description, resumes |-> <<>>,
     processed |-> processed_resumes, broken |-> {}, raised |-> scored.raised,
     before |-> scored.before, scored |-> scored.rows, candidates |-> <<>>,
     status |-> 0]

\* A call of ResumeScorer.score_resumes
ScoreResumes(job_description, processed_resumes) ==
    /\ sorted.phase = "fresh"
    /\ sorted' = Called(job_description, processed_resumes,
                        score_resumes(job_description, processed_resumes, {}))
    /\ UNCHANGED <<storeVars, thVars, ask, chunked, scoring>>

RankNext ==
    \/ \E job_description \in JobDescriptions, resumes \in Batches :
          SortResumes(job_description, resumes)
    \/ \E job_description \in JobDescriptions \ {"", "   "}, processed_resumes \in DocLists :
          ScoreResumes(job_description, processed_resumes)

SpecRank == StoreInit /\ [][RankNext]_vars

(***************************************************************************)
(* Calls of _create_chunks(text, chunk_size) on the texts of at most       *)
(* MaxTextLen characters over letters, the period and the blank.           *)
(***************************************************************************)
MaxTextLen == 5
MaxChunkSize == 2

ChunkAlphabet == {"a", "b", ".", " "}

RECURSIVE TextsOfLen(_)
TextsOfLen(n) ==
    IF n = 0 THEN {""} ELSE {t \o c : t \in TextsOfLen(n - 1), c \in ChunkAlphabet}

ChunkTexts == UNION {TextsOfLen(n) : n \in 0..MaxTextLen}

CreateChunks(text, chunk_size) ==
    /\ chunked.phase = "fresh"
    /\ chunked' = [phase |-> "chunked", text |-> text, chunk_size |-> chunk_size,
                   chunks |-> _create_chunks(text, chunk_size)]
    /\ UNCHANGED <<storeVars, thVars, ask, sorted, scoring>>

ChunkNext == \E text \in ChunkTexts, chunk_size \in 1..MaxChunkSize : CreateChunks(text, chunk_size)

SpecChunks == StoreInit /\ [][ChunkNext]_vars

(***************************************************************************)
(* One iteration of the loop of score_resumes in full (scorer.py 47-146):  *)
(* the evidence, the evidence of each keyword, the feedback and the        *)
(* improvements beside the scores of ScoreRow.                             *)
(***************************************************************************)
\* lines 71, 74, 85 and 104
TopChunks == 5
EvidenceLen == 240
MaxEvidence == 3
SkillSnippetLen == 200

\* np.argsort(chunk_scores) of line 71, with the default kind, which is not stable:
\* the indices in an ascending order of the scores, the order of the indices of equal
\* scores being left to the build
ArgSorts(chunk_scores) ==
    {order \in Permutations(1..Len(chunk_scores)) :
        \A i, j \in 1..Len(chunk_scores) :
            i < j => chunk_scores[order[i]] <= chunk_scores[order[j]]}

\* seq[::-1]
Reverse(seq) == [i \in 1..Len(seq) |-> seq[Len(seq) + 1 - i]]

\* line 71: np.argsort(chunk_scores)[-5:][::-1], order being what argsort returned
TopIdx(order) == Reverse(LastN(order, TopChunks))

\* line 77
EvidenceNoise == {"email", "phone", "linkedin", "github", "http", "@"}

\* line 74, for every idx of top_idx
RawSnippets(chunks, top_idx) ==
    [i \in 1..Len(top_idx) |-> strip(Prefix(chunks[top_idx[i]], EvidenceLen))]

\* lines 76-78: the snippets that are not skipped
NotContact(raw_snippets) ==
    Filter(raw_snippets,
           {i \in 1..Len(raw_snippets) : ~AnyIn(lower(raw_snippets[i]), EvidenceNoise)})

\* line 80
MatchedIn(found, job_keywords) ==
    Filter(found, {i \in 1..Len(found) :
                      found[i] \in {job_keywords[j] : j \in 1..Len(job_keywords)}})

\* lines 81-83
Snippet(raw_snippet, matched) ==
    IF matched # <<>> THEN raw_snippet \o "  | matched: " \o join(", ", matched)
    ELSE raw_snippet

Snippets(raw_snippets, job_keywords) ==
    [i \in 1..Len(raw_snippets) |->
        Snippet(raw_snippets[i],
                MatchedIn(_extract_keywords(raw_snippets[i]), job_keywords))]

\* lines 69-86: evidence; the loop stops at the third snippet it appends
Evidence(chunks, top_idx, job_keywords) ==
    Prefix(Snippets(NotContact(RawSnippets(chunks, top_idx)), job_keywords), MaxEvidence)

\* str.splitlines on the line ends \n, \r, \r\n and \f
LineEnds(text) ==
    [p \in {i \in 1..Len(text) : Ch(text, i) \in {"\n", "\r", "\f"}} |->
        IF Ch(text, p) = "\r" /\ StartsAt(text, p + 1, "\n") THEN p + 1 ELSE p]

SplitLines(text) == IF text = "" THEN <<>> ELSE Pieces(text, Cuts(LineEnds(text), 1))

\* the first of the texts whose lowered form holds k, stripped and cut as in lines 104
\* and 109; "" when there is none
FirstHolding(texts, k) ==
    IF \E i \in 1..Len(texts) : Contains(lower(texts[i]), k)
    THEN Prefix(strip(texts[MinOf({i \in 1..Len(texts) : Contains(lower(texts[i]), k)})]),
                SkillSnippetLen)
    ELSE ""

\* lines 101-111 for one keyword
SkillSnippet(lines, chunks, k) ==
    IF FirstHolding(lines, k) # "" THEN FirstHolding(lines, k)
    ELSE IF FirstHolding(chunks, k) # "" THEN FirstHolding(chunks, k)
    ELSE "found"

\* The evidence map with the missing keywords as its keys
SkillEvidenceOfMissing(job_keywords, resume_keywords, raw_text, chunks) ==
    [k \in {job_keywords[i] : i \in 1..Len(job_keywords)}
           \ {resume_keywords[i] : i \in 1..Len(resume_keywords)} |-> "found"]

\* lines 99-111: skill_evidence, a dict
SkillEvidence(job_keywords, resume_keywords, raw_text, chunks) ==
    [k \in {job_keywords[i] : i \in 1..Len(job_keywords)}
           \cap {resume_keywords[i] : i \in 1..Len(resume_keywords)} |->
        SkillSnippet(SplitLines(raw_text), chunks, k)]

\* lines 287-294; semantic_score is num / den
SemanticFeedback(semantic_score) ==
    IF 100 * semantic_score.num > 75 * semantic_score.den
    THEN "Strong semantic match with job requirements."
    ELSE IF 100 * semantic_score.num > 50 * semantic_score.den
    THEN "Good match with job requirements."
    ELSE IF 100 * semantic_score.num > 30 * semantic_score.den
    THEN "Moderate match with job requirements."
    ELSE "Limited semantic match with job requirements."

\* lines 297-304
SkillFeedback(skill_match_ratio, skills) ==
    IF 10 * skill_match_ratio.num > 7 * skill_match_ratio.den
    THEN "Excellent skill alignment with " \o NumStr(Len(skills))
         \o " relevant skills identified."
    ELSE IF 10 * skill_match_ratio.num > 4 * skill_match_ratio.den
    THEN "Good skill overlap with " \o NumStr(Len(skills)) \o " relevant skills."
    ELSE IF 10 * skill_match_ratio.num > skill_match_ratio.den
    THEN "Some skill overlap with " \o NumStr(Len(skills)) \o " relevant skills."
    ELSE "Limited skill overlap with job requirements."

\* lines 307-314
EntityFeedback(entities) ==
    (IF Entity(entities, "ORG") # <<>>
     THEN <<"Candidate has experience at " \o NumStr(Len(Entity(entities, "ORG")))
            \o " organizations.">>
     ELSE <<>>)
    \o (IF Entity(entities, "DATE") # <<>>
        THEN <<"Strong educational background indicated.">> ELSE <<>>)

\* _generate_feedback (lines 265-316)
_generate_feedback(semantic_score, skill_match_ratio, skills, entities) ==
    join(" ", <<SemanticFeedback(semantic_score), SkillFeedback(skill_match_ratio, skills)>>
              \o EntityFeedback(entities))

\* line 329
Strengthen(g) ==
    "Strengthen experience with " \o g \o ": build a small project or certification."

\* lines 330-331: len(matched_skills) < max(3, len(job_keywords) // 2)
FewSkills(job_keywords, matched_skills) ==
    Len(matched_skills) < (IF Len(job_keywords) \div 2 > 3 THEN Len(job_keywords) \div 2 ELSE 3)

\* lines 332-334
OrGreat(improvements) ==
    IF improvements = <<>>
    THEN <<"Great alignment. Emphasize recent work matching the job requirements.">>
    ELSE improvements

\* lines 327-331
Suggestions(gaps, few) ==
    [i \in 1..Min(5, Len(gaps)) |-> Strengthen(gaps[i])]
    \o (IF few
        THEN <<"Highlight concrete achievements using metrics to improve semantic relevance.">>
        ELSE <<>>)

\* _generate_improvements (lines 318-334)
_generate_improvements(job_keywords, resume_keywords, matched_skills) ==
    OrGreat(Suggestions(MissingSkills(job_keywords, resume_keywords),
                        FewSkills(job_keywords, matched_skills)))

\* lines 68-146: the row of ScoreRow with the fields it leaves out
FullRow(row, resume_data, chunks, top_idx, resume_keywords) ==
    row @@ [feedback |-> _generate_feedback(row.semantic_score, row.skill_match_ratio,
                                            row.skills, resume_data.entities),
            evidence |-> Evidence(chunks, top_idx, row.jd_skills),
            improvements |-> _generate_improvements(row.jd_skills, resume_keywords,
                                                    row.skills),
            skill_evidence |-> SkillEvidence(row.jd_skills, resume_keywords,
                                             resume_data.raw_text, chunks)]

\* the record of one iteration: its inputs, its locals and the row it appends
Scored1(job_description, resume_data, chunks, order, resume_keywords) ==
    [phase |-> "scored", job_description |-> job_description, resume_data |-> resume_data,
     chunks |-> chunks, chunk_scores |-> ChunkScores(job_description, chunks),
     top_idx |-> TopIdx(order), resume_keywords |-> resume_keywords,
     row |-> FullRow(ScoreOf(job_description, resume_data,
                             _extract_keywords(job_description), resume_keywords),
                     resume_data, chunks, TopIdx(order), resume_keywords)]

\* the iteration left by a KeyError
Raised1(job_description, resume_data) ==
    [phase |-> "raised", job_description |-> job_description, resume_data |-> resume_data,
     chunks |-> <<>>, chunk_scores |-> <<>>, top_idx |-> <<>>, resume_keywords |-> <<>>,
     row |-> <<>>]

\* the chunks of line 51
ChunksOf(resume_data) == _create_chunks(resume_data.raw_text, ScoreChunkSize)

\* the iteration on resume_data when argsort returns order
Iterated(job_description, resume_data, order) ==
    IF Raises(resume_data, {})
    THEN Raised1(job_description, resume_data)
    ELSE Scored1(job_description, resume_data, ChunksOf(resume_data), order,
                 _extract_keywords(resume_data.raw_text))

\* One iteration of the loop of lines 47-146
ScoreDocument(job_description, resume_data) ==
    /\ scoring.phase = "fresh"
    /\ \E order \in ArgSorts(ChunkScores(job_description, ChunksOf(resume_data))) :
          scoring' = Iterated(job_description, resume_data, order)
    /\ UNCHANGED <<storeVars, thVars, ask, sorted, chunked>>

\* six sentences of 257, 257, 262, 262, 267 and 267 characters, each a chunk of its
\* own; the second, the fourth and the sixth hold a contact word
TiedUpload ==
    Enriched("tied.pdf", "Designed and operated the Python services of the order platform for four years, including the PostgreSQL schema, the nightly batch jobs that reconcile the payments, the monitoring dashboards and the runbooks that the support engineers use during an incident. Open source work is published on GitHub, among it a little library for parsing bank statements that is used by several accounting tools and a plugin for the build system that caches the results of slow test suites between the runs on the integration servers. Introduced automated testing for the React frontend of the customer portal, wrote the first end to end suites, trained the other developers in writing them and reduced the number of regressions that reached the customers in a release from about ten to one or two. Reachable by email or by phone during office hours for questions about the projects listed above, references from the two most recent employers are available on request and copies of the certificates of the university can be sent along as well if they are wanted. Moved the deployment of all services to Docker and Kubernetes on AWS together with the operations team, which cut the time a release takes from two days to under an hour and made it possible for the developers to roll back a faulty version of a service within minutes. Further details of the career, talks given at meetups and conferences and a list of publications are collected on the personal page at the http address shown in the header of this document, which also links to recordings of the talks and to the slides that were shown.", "Gil Hart", <<"Acme Corp", "Initech Ltd">>, <<>>, <<>>)

LinesUpload ==
    Enriched("lines.pdf", "Data engineer\nBuilt the reporting pipelines on AWS in Python.\nSQL models for the finance team. Agile delivery.", "Hu Ito", <<"Globex Corp">>, <<>>, <<>>)

\* the documents of the iterations of the model
ScoreDocs ==
    ProcessedDocs
    \cup {ProcessedOf(TiedUpload), ProcessedOf(LinesUpload),
          [ProcessedOf(BackendUpload) EXCEPT !.skills = <<"Python", "Sql", "Rest">>],
          [ProcessedOf(ReactUpload) EXCEPT !.entities.DATE = <<"2019", "2023">>]}

ScoreJobs ==
    (JobDescriptions \ {"", "   "})
    \cup {"Full stack developer: Node, React and SQL. API design, agile, security, cloud and mobile"}

ScoreNext ==
    \E job_description \in ScoreJobs, resume_data \in ScoreDocs :
        ScoreDocument(job_description, resume_data)

SpecScore == StoreInit /\ [][ScoreNext]_vars

(***************************************************************************)
(* C1: the stored transcript of every conversation id holds at most        *)
(* max_messages entries, and they are the most recently added entries of   *)
(* that id, in insertion order (the add past the window drops the oldest). *)
(***************************************************************************)
C1_WindowHoldsMostRecent ==
    \A c \in DOMAIN data :
        /\ Len(data[c].messages) <= max_messages
        /\ RoleText(data[c].messages) = LastN(log[c], max_messages)

\* more entries were added to an id than the window holds
C1_Witness ==
    \E c \in DOMAIN data :
        /\ Len(log[c]) > max_messages
        /\ Len(data[c].messages) = max_messages
        /\ ret.op = "add" /\ ret.cid = c

(***************************************************************************)
(* C2: a get on an id with a record returns the entries added to it (role  *)
(* and text, insertion order, the window's worth) when no more than ttl    *)
(* has elapsed since the last add, and the empty transcript when more than *)
(* ttl has elapsed.                                                        *)
(***************************************************************************)
C2_GetWithinTtl ==
    [][\A c \in Cids :
        (ret'.op = "get" /\ ret'.cid = c /\ c \in DOMAIN data) =>
            IF now - data[c].updated > ttl
            THEN ret'.val = <<>>
            ELSE ret'.val = LastN(log[c], max_messages) /\ ret'.val # <<>>
      ]_vars

\* a get found the record expired
C2_Witness == ret.op = "get" /\ ret.line = 60 /\ nadds > 0

(***************************************************************************)
(* C3: no get returns an entry that was stored in its record at a moment   *)
(* when now - updated > ttl held for the record.                           *)
(***************************************************************************)
C3_NoStaleEntryReturned == ret.op = "get" => ret.ids \cap stale = {}

(***************************************************************************)
(* C4: when adds on the same id are run by several threads, no message is  *)
(* lost: once the threads have returned, every message added to an id      *)
(* whose window is not exceeded (and whose record no get has popped) is in *)
(* the id's transcript, also when the id had no record before.             *)
(***************************************************************************)
C4_NoAddLost ==
    \A c \in Cids :
        ( /\ \A t \in Threads : th[t].pc = "idle"
          /\ c \notin tpopped
          /\ tadded[c] # {}
          /\ Cardinality(tadded[c]) <= max_messages )
        => /\ c \in DOMAIN tdata
           /\ tadded[c] \subseteq Ids(heapL[heapE[tdata[c]].messages])

(***************************************************************************)
(* C5: a step of an add or a get on one conversation id leaves the record  *)
(* of every other id (its entries and its last-updated time) as it was,    *)
(* however the statements of the threads interleave.                       *)
(***************************************************************************)
C5_OtherRecordsUnchanged ==
    [][\A t \in Threads :
         th'[t] # th[t] =>
             \A b \in Cids \ {th'[t].cid} : TRecord(b)' = TRecord(b)
      ]_vars

\* a get has popped the record of one id while another id holds a record
C5_Witness ==
    \E t \in Threads, b \in Cids :
        /\ th[t].pc = "idle" /\ th[t].op = "get"
        /\ th[t].cid \in tpopped
        /\ b # th[t].cid
        /\ b \in DOMAIN tdata

(***************************************************************************)
(* The intents in the order of the chain, with the words that trigger them *)
(***************************************************************************)
IntentOrder == <<"leadership", "experience", "gpa", "education", "projects">>
IntentTriggers ==
    <<LeadershipTriggers, ExperienceTriggers, GpaTriggers, EducationTriggers, ProjectTriggers>>

\* the intents whose trigger holds on the lowered question ql
Triggered(ql) == {i \in 1..Len(IntentOrder) : AnyIn(ql, IntentTriggers[i])}

\* the earliest of them, the general fallback when there is none
FirstTriggered(ql) ==
    IF Triggered(ql) = {} THEN "general" ELSE IntentOrder[MinOf(Triggered(ql))]

\* the answers a handler writes begin with, or are, one of its own texts
AnswerBy(intent, answer) ==
    \E t \in CASE intent = "leadership" ->
                    {"Yes ~ shows leadership experience.",
                     "Not explicitly mentioned ~ no clear leadership evidence found."}
               [] intent = "experience" ->
                    {"Approximately ", "Years of experience are not clearly quantified."}
               [] intent = "gpa" -> {"CGPA/GPA: ", "CGPA/GPA not explicitly mentioned."}
               [] intent = "education" ->
                    {"Education: ", "Education details not clearly found."}
               [] intent = "projects" ->
                    {"Web projects: ", "ML projects: ", "Projects: ",
                     "No explicit projects matching that topic were found."}
               [] OTHER ->
                    {"From the resume: ",
                     "I couldn't find specific information related to your question."} :
        StartsAt(answer, 1, t)

(***************************************************************************)
(* C6: the answer of a request is produced by one intent handler, the      *)
(* first in the order leadership, experience, GPA, education, projects,    *)
(* general fallback whose trigger holds on the literal question; a         *)
(* question that triggers several intents is answered by the earliest.     *)
(***************************************************************************)
C6_FirstTriggeredIntentAnswers ==
    ask.phase # "fresh" =>
        /\ ask.intent = FirstTriggered(lower(ask.q))
        /\ AnswerBy(ask.intent, ask.result.answer)
        /\ \A other \in {"leadership", "experience", "gpa", "education", "projects", "general"} :
              other # ask.intent => ~AnswerBy(other, ask.result.answer)

\* a question that triggers leadership, experience and projects was answered by the
\* leadership handler
C6_Witness ==
    /\ ask.phase = "done"
    /\ Triggered(lower(ask.q)) = {1, 2, 5}
    /\ ask.intent = "leadership"
    /\ AnswerBy("leadership", ask.result.answer)

\* The context the fusion of the cache entries and the history items gives
Fusion(server_hist, items) ==
    join(" | ", Pairs(LastN(server_hist, HistWindow) \o LastN(items, HistWindow)))

(***************************************************************************)
(* C7: whether or not the cache holds entries for the id and whether or    *)
(* not a transient history is supplied, the context of a request is the    *)
(* fusion of the last 10 cache entries and the last 10 history items (the  *)
(* last 10 of them, noisy ones dropped); with entries in the cache and no  *)
(* history supplied it holds the cache entries.                            *)
(***************************************************************************)
C7_ContextIsFusion ==
    (ask.phase # "fresh" /\ ask.history.kind \in {"absent", "list"}) =>
        ask.ctx = Fusion(ask.server_hist, ask.history.items)

C10_AppendFailureSwallowed ==
    (ask.phase # "fresh" /\ ask.fail # "none") =>
        /\ ask.status = 200
        /\ ask.result = AnswerOf[ask.question, ask.resume, ask.server_hist, ask.history].result

\* the second append failed: the question is in the cache, the answer is not, and the
\* answer was returned
C10_Witness ==
    /\ ask.phase = "done" /\ ask.cid = "c1" /\ ask.fail = "second"
    /\ ask.status = 200
    /\ ask.result.answer # ""
    /\ "c1" \in DOMAIN data
    /\ data["c1"].messages[Len(data["c1"].messages)].role = "user"

(***************************************************************************)
(* C11: candidate_ask is a function of its inputs: the request sent a      *)
(* second time with the same question, document text, conversation id and  *)
(* history, against the cache the first request left, returns the answer,  *)
(* snippets and scores the first request returned.                         *)
(***************************************************************************)
C11_SameRequestSameResult ==
    [][(ask.phase = "done" /\ ask'.phase = "again") => ask'.result = ask.result]_vars

\* the rows score_resumes returned to the last request or call
Rows == IF sorted.phase = "fresh" THEN <<>> ELSE sorted.scored

\* the set of the elements of a list
SetOf(seq) == {seq[i] : i \in 1..Len(seq)}

(***************************************************************************)
(* C12: the match percentage of every scored document is                   *)
(* clamp(round(100 * (0.85 * semantic + 0.15 * skillRatio)), 0, 100), with *)
(* semantic the mean similarity of the document's chunks and skillRatio    *)
(* its skill-match ratio.                                                  *)
(***************************************************************************)
C12_MatchPercentageRounded ==
    \A i \in 1..Len(Rows) :
        /\ Rows[i].semantic_score
             = Mean(ChunkScores(sorted.job_description,
                                _create_chunks(Rows[i].raw_text, ScoreChunkSize)))
        /\ Rows[i].match_percentage
             = MatchPercentageRounded(Combined(Rows[i].semantic_score,
                                               Rows[i].skill_match_ratio))

\* 100 * 0.85 * semantic for a semantic score above 0, cut to its integer part
SemanticAlone(semantic_score) ==
    IF semantic_score.num <= 0 THEN 0
    ELSE (SemanticWeight * semantic_score.num * 100) \div (100 * semantic_score.den)

(***************************************************************************)
(* C13: the match percentage of every scored document lies in [0, 100],    *)
(* whatever the semantic score in [-1, 1]; when the job description and    *)
(* the document share no keyword the skill-match ratio is 0 and the match  *)
(* percentage is the one the semantic score alone gives.                   *)
(***************************************************************************)
C13_MatchPercentageBounded ==
    \A i \in 1..Len(Rows) :
        /\ Rows[i].match_percentage \in 0..100
        /\ -Rows[i].semantic_score.den <= Rows[i].semantic_score.num
        /\ Rows[i].semantic_score.num <= Rows[i].semantic_score.den
        /\ SetOf(Rows[i].jd_skills) \cap SetOf(_extract_keywords(Rows[i].raw_text)) = {} =>
              /\ Rows[i].skill_match_ratio.num = 0
              /\ Rows[i].match_percentage = SemanticAlone(Rows[i].semantic_score)

\* one call scored a document of negative semantic score at 0 and a document that
\* shares no keyword with a job description that has keywords above 0
C13_Witness ==
    /\ sorted.phase = "scored"
    /\ \E i \in 1..Len(Rows) :
          Rows[i].semantic_score.num < 0 /\ Rows[i].match_percentage = 0
    /\ \E i \in 1..Len(Rows) :
          /\ Rows[i].jd_skills # <<>>
          /\ Rows[i].missing_skills = Rows[i].jd_skills
          /\ Rows[i].skill_match_ratio.num = 0
          /\ Rows[i].match_percentage > 0

\* out is a permutation of inp in non-increasing key, equal keys in the order of inp
StablyRanked(out, inp, keyOut) ==
    /\ Len(out) = Len(inp)
    /\ \A k, l \in 1..Len(out) : k < l => keyOut[k] >= keyOut[l]
    /\ \E p \in Permutations(1..Len(inp)) :
          /\ \A k \in 1..Len(out) : out[k] = inp[p[k]]
          /\ \A k, l \in 1..Len(out) : (k < l /\ keyOut[k] = keyOut[l]) => p[k] < p[l]

(***************************************************************************)
(* C14: what score_resumes returns is a permutation of the documents it    *)
(* scored, in non-increasing match percentage, and documents of equal      *)
(* match percentage stand in their input order; the candidates of the      *)
(* response of sort_resumes stand in that same order.                      *)
(***************************************************************************)
C14_RankingStable ==
    (sorted.phase # "fresh" /\ ~sorted.raised) =>
        /\ StablyRanked(sorted.scored, sorted.before,
                        [k \in 1..Len(sorted.scored) |-> sorted.scored[k].match_percentage])
        /\ sorted.status = 200 =>
              /\ StablyRanked(sorted.candidates,
                              [k \in 1..Len(sorted.before) |-> CandidateOf(sorted.before[k])],
                              [k \in 1..Len(sorted.candidates) |->
                                  sorted.candidates[k].matchPercentage])
              /\ sorted.candidates
                   = [k \in 1..Len(sorted.scored) |-> CandidateOf(sorted.scored[k])]

\* a request ranked two different documents of the same match percentage above 0
C14_Witness ==
    /\ sorted.phase = "sorted" /\ sorted.status = 200
    /\ Len(sorted.candidates) = 2
    /\ sorted.candidates[1].matchPercentage = sorted.candidates[2].matchPercentage
    /\ sorted.candidates[1].matchPercentage > 0
    /\ sorted.candidates[1].filename # sorted.candidates[2].filename
    /\ sorted.candidates[1].filename = sorted.resumes[1].filename

\* the sentences of a text: the pieces between periods, stripped, the empty ones left out
SentencesOf(text) == StripNonEmpty(SplitDots(text))

C16_ChunksNonEmpty ==
    chunked.phase = "chunked" =>
        /\ Len(chunked.chunks) >= 1
        /\ \A i \in 1..Len(chunked.chunks) : chunked.chunks[i] # ""

\* the files of the request on which neither the extraction nor the scoring fails
Survivors(resumes) ==
    Filter(resumes, {j \in 1..Len(resumes) : Kept(resumes[j]) /\ resumes[j].fault # "score"})

(***************************************************************************)
(* C17: a request with a job description and files skips the files on      *)
(* which the extraction or the scoring fails and answers with the ranking  *)
(* of the others; it fails only when no file is left.                      *)
(***************************************************************************)
C17_FailedDocumentSkipped ==
    (sorted.phase = "sorted" /\ strip(sorted.job_description) # "" /\ sorted.resumes # <<>>) =>
        IF Survivors(sorted.resumes) = <<>>
        THEN sorted.status # 200
        ELSE /\ sorted.status = 200
             /\ sorted.candidates
                  = Candidates(score_resumes(sorted.job_description,
                                             Processed(Survivors(sorted.resumes)), {}).rows)

(***************************************************************************)
(* C18: a call of score_resumes on documents whose entities, skills,       *)
(* education or summary is empty or not there does not raise and returns   *)
(* a ScoreResult for every document.                                       *)
(***************************************************************************)
C18_EnrichmentTolerated ==
    sorted.phase = "scored" =>
        /\ ~sorted.raised
        /\ Len(sorted.scored) = Len(sorted.processed)
        /\ \A i \in 1..Len(sorted.processed) :
              \E k \in 1..Len(sorted.scored) :
                  sorted.scored[k].filename = sorted.processed[i].filename

(***************************************************************************)
(* C19: a request to candidate_ask whose document text is empty after the  *)
(* cleanup is refused: the caller gets an error, no answer is computed and *)
(* nothing is written to the cache.                                        *)
(***************************************************************************)
C19_EmptyDocumentRefused ==
    [][(ask' # ask /\ Documents[ask'.resume].txt = "") =>
          /\ ask'.status = 400
          /\ ask'.result.answer = ""
          /\ nadds' = nadds
      ]_vars

\* the score of snippet is the one of an entry of scored, or the 1.0 a handler gives
\* to the evidence it chose
Belongs(scored, score, snippet) ==
    \/ score = 100
    \/ \E k \in 1..Len(scored) :
          scored[k][1] = score /\ strip(Prefix(scored[k][2], SnippetLen)) = snippet

ScoresBelong(result, scored) ==
    \A i \in 1..Len(result.snippets) : Belongs(scored, result.scores[i], result.snippets[i])

(***************************************************************************)
(* C20: the result of every request to candidate_ask, whichever handler    *)
(* answered, has at most 3 snippets and as many scores as snippets, the    *)
(* score at a place being the score of the snippet at that place.          *)
(***************************************************************************)
C20_SnippetsAndScoresParallel ==
    ask.phase # "fresh" =>
        /\ Len(ask.result.snippets) <= MaxSnippets
        /\ Len(ask.result.scores) = Len(ask.result.snippets)
        /\ ScoresBelong(ask.result,
                        Scored(QQuery(ask.ctx, ask.q), ask.kw, Documents[ask.resume].chunks))

\* the general handler returned sentences with the similarities they were ranked by
C20_Witness ==
    /\ ask.phase = "done"
    /\ ask.intent = "general"
    /\ Len(ask.result.snippets) >= 2
    /\ Len(ask.result.scores) = Len(ask.result.snippets)
    /\ ask.result.scores[1] # 100

(***************************************************************************)
(* The refusals of sort_resumes: a request with an empty or blank job      *)
(* description, or with no file, is answered 400 and nothing is scored.    *)
(***************************************************************************)
SortInputErrors ==
    (sorted.phase = "sorted"
       /\ (strip(sorted.job_description) = "" \/ sorted.resumes = <<>>)) =>
        /\ sorted.status = 400
        /\ sorted.before = <<>> /\ sorted.scored = <<>> /\ sorted.candidates = <<>>

(***************************************************************************)
(* The files on which the extraction fails are skipped: a request none of  *)
(* whose files fails in the scoring is answered with the ranking of the    *)
(* files that were read, and with 400 when none was.                       *)
(***************************************************************************)
ExtractionFailureSkipped ==
    (sorted.phase = "sorted" /\ strip(sorted.job_description) # "" /\ sorted.resumes # <<>>
       /\ \A i \in 1..Len(sorted.resumes) : sorted.resumes[i].fault # "score") =>
        IF Survivors(sorted.resumes) = <<>>
        THEN sorted.status = 400
        ELSE /\ sorted.status = 200
             /\ sorted.candidates
                  = Candidates(score_resumes(sorted.job_description,
                                             Processed(Survivors(sorted.resumes)), {}).rows)

\* the lines in which the pattern of line 420 finds the value val
ValueLines(lines, val) == Filter(lines, {i \in 1..Len(lines) : FirstGpa(lines[i]) = val})

\* what the GPA handler is to answer on the document doc, val being the first value
\* the pattern finds in the cleaned text
GpaAnswered(result, doc, val) ==
    IF val = ""
    THEN result.answer = "CGPA/GPA not explicitly mentioned." /\ result.snippets = <<>>
    ELSE result.snippets = Prefix(ValueLines(doc.lines, val), 1)

(***************************************************************************)
(* C21: when the GPA handler answers and the cleaned text holds no         *)
(* CGPA/GPA value, the answer is exactly "CGPA/GPA not explicitly          *)
(* mentioned." and there is no evidence; when a value is found, the        *)
(* evidence is the one line that holds the value if there is such a line,  *)
(* and is empty otherwise.                                                 *)
(***************************************************************************)
C21_GpaEvidenceIsValueLine ==
    (ask.phase # "fresh" /\ ask.intent = "gpa") =>
        GpaAnswered(ask.result, Documents[ask.resume], FirstGpa(Documents[ask.resume].txt))

(***************************************************************************)
(* The part of C21 on a text with no value: the fixed answer and no        *)
(* evidence.                                                               *)
(***************************************************************************)
GpaNotMentioned ==
    (ask.phase # "fresh" /\ ask.intent = "gpa" /\ FirstGpa(Documents[ask.resume].txt) = "") =>
        /\ ask.result.answer = "CGPA/GPA not explicitly mentioned."
        /\ ask.result.snippets = <<>> /\ ask.result.scores = <<>>

\* the lines of the cleaned text with the bullets removed, the noise lines still
\* among them
AllLines(txt) == NonEmpty([i \in 1..Len(RawLines(txt)) |-> StripBullet(RawLines(txt)[i])])

\* the lines of all after the heading at place h, up to the next heading line, the
\* noise lines left out, at most max_len of them
BodyAfter(all, h, max_len) ==
    Prefix(NotNoise(SubSeq(all, h + 1,
                           BeforeFirst({k \in h + 1..Len(all) : IsHeading(all[k])}, Len(all)))),
           max_len)

\* the body of the first section of all whose heading holds name
SectionBody(all, name, max_len) ==
    IF \E h \in 1..Len(all) : IsHeading(all[h]) /\ Contains(lower(all[h]), name)
    THEN BodyAfter(all, MinOf({h \in 1..Len(all) :
                                  IsHeading(all[h]) /\ Contains(lower(all[h]), name)}),
                   max_len)
    ELSE <<>>

\* the heading lines of all are the detected headings
HeadingsDetected(all, headings) ==
    \A h \in 1..Len(all) :
        IsHeading(all[h]) => \E k \in 1..Len(headings) : headings[k][2] = lower(all[h])

\* the answer of the handler of intent is made from the body of its section
AnswersFromBody(intent, result, ql, body) ==
    body # <<>> =>
        result.answer
          = strip(IF intent = "education" THEN EducationFrom(body, <<>>).answer
                  ELSE ProjectsFrom(body, AnyIn(ql, web_kw), AnyIn(ql, ml_kw), <<>>).answer)

(***************************************************************************)
(* C22: a line of the cleaned document that is one of the fixed headings,  *)
(* whatever its case, is detected as a section heading, and section_slice  *)
(* returns the non-noise lines between it and the next heading, up to the  *)
(* cap; the education and projects handlers answer from the body of their  *)
(* section when the document has the heading line with non-noise lines     *)
(* under it.                                                               *)
(***************************************************************************)
C22_HeadingLineOpensSection ==
    ask.phase # "fresh" =>
        /\ HeadingsDetected(AllLines(Documents[ask.resume].txt), Documents[ask.resume].headings)
        /\ ask.intent = "education" =>
              AnswersFromBody("education", ask.result, lower(ask.q),
                              SectionBody(AllLines(Documents[ask.resume].txt), "education", 12))
        /\ ask.intent = "projects" =>
              AnswersFromBody("projects", ask.result, lower(ask.q),
                              SectionBody(AllLines(Documents[ask.resume].txt), "project", 18))

(***************************************************************************)
(* No line that is a heading is among the lines the handler keeps: a       *)
(* heading has fewer than 25 characters and is dropped as noise, so no     *)
(* heading is ever detected and no section is ever found.                  *)
(***************************************************************************)
NoHeadingEverDetected ==
    ask.phase # "fresh" =>
        /\ Documents[ask.resume].headings = <<>>
        /\ section_slice(Documents[ask.resume].lines, Documents[ask.resume].headings,
                         "education", 12) = <<>>
        /\ section_slice(Documents[ask.resume].lines, Documents[ask.resume].headings,
                         "project", 18) = <<>>

\* the indices of the chunks by descending similarity, the earlier chunk first among
\* chunks of equal similarity, the first TopChunks of them
StableTop(chunk_scores) ==
    Prefix(SortReverse([i \in 1..Len(chunk_scores) |-> i], chunk_scores), TopChunks)

(***************************************************************************)
(* C23: the evidence of a ScoreResult is taken from the 5 chunks of        *)
(* highest similarity in descending similarity, the earlier chunk of the   *)
(* document first among chunks of equal similarity, and has at most 3      *)
(* snippets.                                                               *)
(***************************************************************************)
C23_EvidenceTiesInChunkOrder ==
    scoring.phase = "scored" =>
        /\ Len(scoring.row.evidence) <= MaxEvidence
        /\ scoring.row.evidence
             = Evidence(scoring.chunks, StableTop(scoring.chunk_scores), scoring.row.jd_skills)

(***************************************************************************)
(* What holds of the evidence whatever order argsort gives to equal        *)
(* scores: at most 3 snippets, made in the order of top_idx, whose chunks  *)
(* are in descending similarity and are 5 chunks (all when there are       *)
(* fewer) that no other chunk exceeds.                                     *)
(***************************************************************************)
EvidenceFromTopDescending ==
    scoring.phase = "scored" =>
        /\ Len(scoring.row.evidence) <= MaxEvidence
        /\ Len(scoring.top_idx) = Min(TopChunks, Len(scoring.chunks))
        /\ \A i, j \in 1..Len(scoring.top_idx) :
              i < j => /\ scoring.top_idx[i] # scoring.top_idx[j]
                       /\ scoring.chunk_scores[scoring.top_idx[i]]
                            >= scoring.chunk_scores[scoring.top_idx[j]]
        /\ \A k \in 1..Len(scoring.chunks) :
              k \notin {scoring.top_idx[i] : i \in 1..Len(scoring.top_idx)} =>
                  \A i \in 1..Len(scoring.top_idx) :
                      scoring.chunk_scores[k] <= scoring.chunk_scores[scoring.top_idx[i]]
        /\ scoring.row.evidence
             = Evidence(scoring.chunks, scoring.top_idx, scoring.row.jd_skills)

\* the row was computed of the job keywords jk and the document keywords rk, common
\* being the keywords they share
SkillMatchOf(row, jk, rk, common) ==
    /\ row.skill_match_ratio.den > 0
    /\ IF jk = <<>>
       THEN row.skill_match_ratio.num = 0
       ELSE row.skill_match_ratio.num * Cardinality(SetOf(jk))
              = Cardinality(common) * row.skill_match_ratio.den
    /\ 0 <= row.skill_match_ratio.num
    /\ row.skill_match_ratio.num <= row.skill_match_ratio.den
    /\ row.missing_skills = Filter(jk, {i \in 1..Len(jk) : jk[i] \notin SetOf(rk)})
    /\ DOMAIN row.skill_evidence = SetOf(jk) \ SetOf(row.missing_skills)

(***************************************************************************)
(* C24: for every job description and document the skill-match ratio is    *)
(* the number of job keywords that are document keywords divided by the    *)
(* number of job keywords, 0 when the job has no keyword, and lies in      *)
(* [0, 1]; the missing keywords are the job keywords that are not document *)
(* keywords, in the order of the job keywords; the keys of the evidence    *)
(* map of the keywords are the job keywords that are not missing.          *)
(***************************************************************************)
C24_SkillMatchAndMissing ==
    scoring.phase = "scored" =>
        SkillMatchOf(scoring.row, _extract_keywords(scoring.job_description),
                     _extract_keywords(scoring.resume_data.raw_text),
                     SetOf(_extract_keywords(scoring.job_description))
                     \cap SetOf(_extract_keywords(scoring.resume_data.raw_text)))

\* a job of eight keywords and a document that has three of them, one by an alias
\* only: five keywords are missing
C24_Witness ==
    /\ scoring.phase = "scored"
    /\ Len(scoring.row.jd_skills) = 8
    /\ scoring.row.skill_match_ratio = [num |-> 3, den |-> 8]
    /\ scoring.row.missing_skills = <<"react", "node", "api", "mobile", "security">>
    /\ DOMAIN scoring.row.skill_evidence = {"sql", "cloud", "agile"}
    /\ scoring.row.skill_evidence["cloud"] = "found"

\* a job with no keyword was scored: the ratio is 0
NoJobKeywords ==
    /\ scoring.phase = "scored"
    /\ scoring.row.jd_skills = <<>>
    /\ scoring.row.skill_match_ratio.num = 0
    /\ scoring.row.missing_skills = <<>>
    /\ DOMAIN scoring.row.skill_evidence = {}

\* the suggestions of the first 5 of the gaps, in their order
Targeted(gaps) == [i \in 1..Min(5, Len(gaps)) |-> Strengthen(gaps[i])]

(***************************************************************************)
(* C25: the improvements start with one targeted suggestion for each of    *)
(* the first 5 missing job keywords, in their order; when no job keyword   *)
(* is missing the improvements are the single positive-alignment message,  *)
(* whatever the number of matched skills.                                  *)
(***************************************************************************)
C25_NoGapsGreatAlignment ==
    scoring.phase = "scored" =>
        /\ Prefix(scoring.row.improvements, Len(Targeted(scoring.row.missing_skills)))
             = Targeted(scoring.row.missing_skills)
        /\ scoring.row.missing_skills = <<>> =>
              scoring.row.improvements
                = <<"Great alignment. Emphasize recent work matching the job requirements.">>

(***************************************************************************)
(* What holds of the improvements: the targeted suggestions of the first 5 *)
(* missing keywords come first, in their order; the generic suggestion     *)
(* follows when the matched skills are fewer than max(3, half the number   *)
(* of job keywords); the positive-alignment message is given only when     *)
(* there is neither.                                                       *)
(***************************************************************************)
ImprovementsOfGapsAndSkills ==
    scoring.phase = "scored" =>
        scoring.row.improvements
          = IF scoring.row.missing_skills = <<>>
               /\ 2 * Len(scoring.row.skills) >= 2 * 3
               /\ 2 * Len(scoring.row.skills) + 1 >= Len(scoring.row.jd_skills)
            THEN <<"Great alignment. Emphasize recent work matching the job requirements.">>
            ELSE Targeted(scoring.row.missing_skills)
                 \o (IF Len(scoring.row.skills) >= 3
                        /\ 2 * Len(scoring.row.skills) + 1 >= Len(scoring.row.jd_skills)
                     THEN <<>>
                     ELSE <<"Highlight concrete achievements using metrics to improve semantic relevance.">>)

====
